---- MODULE Spec2Model ----
(***************************************************************************)
(* Verification model of the Robocon scripts.                              *)
(*                                                                         *)
(* Each script is a stand-alone program.  The variable prog says which     *)
(* program a behaviour runs; the actions of the other programs are         *)
(* disabled and their variables keep their initial values.                 *)
(*                                                                         *)
(*   "V2"       R1_Controller/ps4_to_arduino_V2.py                         *)
(*   "V7"       mecanum_car_V7/ps4_to_arduino (1).py                       *)
(*   "xy"       xy.py                                                      *)
(*   "sd2", "sd3", "working2", "sd4"   the smoothed TRUE/FALSE detectors   *)
(*   "oracle2"  oracle2.py                                                 *)
(*   "digital_map", "try2", "try3", "try4", "try5", "try7", "try8", "try9" *)
(*              the path planners Digital_Map/digital_map.py, path/try*.py *)
(*                                                                         *)
(* Clock units: the relays read time.time() in milliseconds, xy.py and     *)
(* oracle2.py in tenths of a second.  oracle2.py only ever uses the age of *)
(* two time stamps, so its model keeps the ages instead of the stamps.     *)
(***************************************************************************)
EXTENDS Integers, Sequences, FiniteSets, TLC

VARIABLES
    prog,               \* which script runs
    pc,                 \* position of the main thread in the script
    clock,              \* last value read from time.time()
    \* ---- PS4 relays ----
    last_send,          \* main(): last_send
    ser_open,           \* the serial port object is open
    tx_last,            \* the last ser.write attempted (NoTx before the first)
    tx_main,            \* number of ser.write calls made by the main loop
    tx_final,           \* number of ser.write calls made by the finally block
    exit_code,          \* "none" while running, else why the process ended
    \* ---- xy.py ----
    controller,         \* a joystick was found at startup (controller is not None)
    current_state,      \* STATE_MANUAL or STATE_AUTO_STOP
    state_timer,        \* clock value of the last state change (0 at start)
    prev_packet,        \* send_robot_packet's prev_packet
    detection_history,  \* the consensus buffer
    consensus_id,       \* the global consensus_id as an iteration leaves it
    xy_iter,            \* what the last loop iteration did (observation only)
    \* ---- sd2.py, sd3.py (sd3 and sd4), working2.py ----
    \* (current_state above is also their smoothed TRUE/FALSE state)
    history,            \* deque(maxlen=SMOOTH_FRAMES) of per-detection results
    count,              \* frame counter, modulo the detection period
    c_result,           \* <<c_name, c_inliers, c_boundary>>
    latest_gray,        \* sd4: latest_gray[0] holds a frame
    worker_busy,        \* sd4: worker_busy[0]
    worker_pc,          \* sd4: position of detection_worker
    \* ---- oracle2.py ----
    latest_frame,       \* shared['latest_frame'] is not None
    last_detection,     \* shared['last_detection']
    det_age,            \* time.time() - shared['last_detection_time']
    tracker,            \* tracker is not None
    tracking,           \* tracking
    tracker_lost,       \* tracker_lost
    reval_age,          \* time.time() - last_revalidate
    last_announced,     \* last_announced (NoName for None)
    recent,             \* deque(maxlen=DEBOUNCE_WINDOW) of <<name, score>>
    det_changes,        \* how often the detector's result has changed so far
    or_iter,            \* what the last step did (observation only)
    \* ---- the path planners ----
    mode,               \* 0 idle, 1 set start, 2 select path, 3 running, 4 place KFS
    start_cell,         \* start_cell / start_pos (NoCell for None)
    path_cells,         \* the list path_cells
    kfs_cells,          \* the list kfs_cells, kept as a bag (see KfsAppend)
    robot,              \* digital_map.py: <<robot_x, robot_y>> in mm
    target_index,       \* target_index
    task_done,          \* task_done
    pause_left,         \* pause_until - time.time() in ms, 0 once it has passed
    run_log,            \* what move_robot has logged since the last RUN or reset
    pl_iter,            \* what the last step did (observation only)
    \* ---- oracle2.py and sd4, statement by statement (pc: the main loop,
    \*      worker_pc: the detector thread) ----
    lk_held,            \* the threads inside `with result_lock:` / `with lock:`
    sh_result,          \* the shared last result, each part as the number of
                        \* the detection that wrote it
    mn_local,           \* the main loop's copies of the parts it has read
    det_no              \* number of the detector's latest detection

relayVars == <<last_send, ser_open, tx_last, tx_main, tx_final, exit_code>>

xyOnly == <<controller, state_timer, prev_packet, detection_history, consensus_id, xy_iter>>

xyVars == <<current_state, xyOnly>>

sdOnly == <<history, count, c_result, latest_gray, worker_busy, worker_pc>>

orOnly == <<latest_frame, last_detection, det_age, tracker, tracking, tracker_lost,
            reval_age, last_announced, recent, det_changes, or_iter>>

plOnly == <<mode, start_cell, path_cells, kfs_cells, robot, target_index, task_done,
            pause_left, run_log, pl_iter>>

lkOnly == <<lk_held, sh_result, mn_local, det_no>>

vars == <<prog, pc, clock, relayVars, xyVars, sdOnly, orOnly, plOnly, lkOnly>>

\* what the actions of one program leave alone of the other programs
nonRelay == <<xyVars, sdOnly, orOnly, plOnly, lkOnly>>
nonXy == <<last_send, tx_main, tx_final, sdOnly, orOnly, plOnly, lkOnly>>
nonSd == <<clock, relayVars, xyOnly, orOnly, plOnly, lkOnly>>
nonOr == <<clock, relayVars, xyVars, sdOnly, plOnly, lkOnly>>
nonPl == <<pc, clock, relayVars, xyVars, sdOnly, orOnly, lkOnly>>
nonLk == <<clock, relayVars, xyVars, history, count, c_result, orOnly, plOnly>>

----------------------------------------------------------------------------
(* Bounds of the model *)

\* raw axis readings are the rationals k / AxisRes, k \in -AxisRes..AxisRes
AxisRes == 2
\* the clock value when a script starts (time.time() is far from 0)
StartClock == 100
\* the relays are followed for this many milliseconds
RelayHorizon == 22
\* longest time between two clock readings of the relay loop
MaxDt == 2
\* xy.py is followed for this many tenths of a second
XyHorizon == 40

----------------------------------------------------------------------------
(* Generic helpers *)

Abs(n) == IF n < 0 THEN -n ELSE n

Min(a, b) == IF a <= b THEN a ELSE b

\* Python int(x) of the rational num / den (den > 0): truncation toward zero
TruncDiv(num, den) == IF num >= 0 THEN num \div den ELSE -((-num) \div den)

DigitChar(d) == CASE d = 0 -> "0" [] d = 1 -> "1" [] d = 2 -> "2" [] d = 3 -> "3"
                  [] d = 4 -> "4" [] d = 5 -> "5" [] d = 6 -> "6" [] d = 7 -> "7"
                  [] d = 8 -> "8" [] d = 9 -> "9"

RECURSIVE NatToStr(_)
NatToStr(n) == IF n < 10 THEN <<DigitChar(n)>>
               ELSE NatToStr(n \div 10) \o <<DigitChar(n % 10)>>

\* f"{n}" of a Python int, as the sequence of its characters
IntToStr(n) == IF n < 0 THEN <<"-">> \o NatToStr(-n) ELSE NatToStr(n)

----------------------------------------------------------------------------
(* PS4 -> Arduino relays (ps4_to_arduino_V2.py, ps4_to_arduino (1).py) *)

SEND_INTERVAL == 20

RawAxis == (-AxisRes)..AxisRes

scale_axis_floor(raw) == (raw * 255) \div AxisRes

\* scale_axis(raw): int(raw * 255), raw given as raw / AxisRes
scale_axis(raw) == TruncDiv(raw * 255, AxisRes)

\* V2: f"<{lx},{ly},{rx},{l1},{r1}>\n".encode("ascii")
build_packet_V2(lx, ly, rx, l1, r1) ==
    <<"<">> \o IntToStr(lx) \o <<",">> \o IntToStr(ly) \o <<",">> \o IntToStr(rx)
        \o <<",">> \o IntToStr(l1) \o <<",">> \o IntToStr(r1) \o <<">", "\n">>

\* V7: f"<{lx},{ly},{rx}>\n".encode("ascii")
build_packet_V7(lx, ly, rx) ==
    <<"<">> \o IntToStr(lx) \o <<",">> \o IntToStr(ly) \o <<",">> \o IntToStr(rx)
        \o <<">", "\n">>

build_packet(p, lx, ly, rx, l1, r1) ==
    IF p = "V2" THEN build_packet_V2(lx, ly, rx, l1, r1)
    ELSE build_packet_V7(lx, ly, rx)

NoTx == [phase |-> "none"]

\* one ser.write(packet) call: the bytes handed to the port, whether the call
\* returned (ok) or raised, where and when it was made, and the readings the
\* packet was built from
Tx(bytes, ok, phase, raws, at) ==
    [phase |-> phase, bytes |-> bytes, ok |-> ok, raw |-> raws, at |-> at]

NoRaw == <<0, 0, 0, 0, 0>>

IsRelay == prog \in {"V2", "V7"}

STATE_MANUAL == "MANUAL_CONTROL"
STATE_AUTO_STOP == "AUTO_STOPPING"

NoIter == [kind |-> "none"]

NoResult == <<"", 0, "None">>

InitSdOnly ==
    /\ history = <<>>
    /\ count = 0
    /\ c_result = NoResult
    /\ latest_gray = FALSE
    /\ worker_busy = FALSE
    /\ worker_pc = "grab"

InitXyOnly ==
    /\ controller = FALSE
    /\ state_timer = 0
    /\ prev_packet = <<>>
    /\ detection_history = <<>>
    /\ consensus_id = -1
    /\ xy_iter = NoIter

\* oracle2.py: None as a template name, as a detection, as a debounce sample
NoName == ""
NoDetection == [name |-> NoName, score |-> 0]
NoCandidate == <<NoName, 0>>

\* oracle2.py constants; times in tenths of a second
DEBOUNCE_WINDOW == 6
DETECTION_REQUIRED_COUNT == 4
DETECTION_SCORE_THRESHOLD == 8
REVALIDATE_EVERY_N_SEC == 8
TRACKER_MAX_LOST == 6
\* `(time.time() - det_time) < 1.2`
FRESH_WITHIN == 12
\* `(now - det_time) > 2.0`
STALE_AFTER == 20

\* Ages are kept up to the largest threshold they are compared to; past it the
\* exact value changes no comparison.  Old stands for every age > STALE_AFTER,
\* REVALIDATE_EVERY_N_SEC itself for every age >= REVALIDATE_EVERY_N_SEC.
\* shared['last_detection_time'] and last_revalidate start at 0.0: both old.
Old == STALE_AFTER + 1

Idle == [kind |-> "idle"]

InitOrOnly ==
    /\ latest_frame = FALSE
    /\ last_detection = NoDetection
    /\ det_age = Old
    /\ tracker = FALSE
    /\ tracking = FALSE
    /\ tracker_lost = 0
    /\ reval_age = REVALIDATE_EVERY_N_SEC
    /\ last_announced = NoName
    /\ recent = <<>>
    /\ det_changes = 0
    /\ or_iter = Idle

\* the planners: None as a cell, and the module-level state (digital_map.py
\* lines 200-211; the try*.py files start the same way)
NoCell == <<>>

\* kfs_cells = []: a bag is a function from its elements to their multiplicity
EmptyKfs == [k \in {} |-> 0]

InitPlOnly ==
    /\ mode = 0
    /\ start_cell = NoCell
    /\ path_cells = <<>>
    /\ kfs_cells = EmptyKfs
    /\ robot = <<0, 0>>
    /\ target_index = 0
    /\ task_done = FALSE
    /\ pause_left = 0
    /\ run_log = <<>>
    /\ pl_iter = Idle

\* the shared result before the first detection: last_detection None with
\* last_detection_time 0.0 (oracle2.py), c_name "", c_inliers 0, c_boundary
\* None and an empty history (sd4); detection 0 stands for "none yet"
NoneYet == [name |-> 0, time |-> 0, inliers |-> 0, boundary |-> 0, hist |-> 0]

InitLkOnly ==
    /\ lk_held = {}
    /\ sh_result = NoneYet
    /\ mn_local = NoneYet
    /\ det_no = 0

InitXyVars ==
    /\ InitXyOnly /\ current_state = STATE_MANUAL /\ InitSdOnly /\ InitOrOnly
    /\ InitPlOnly /\ InitLkOnly

InitRelayVars ==
    /\ last_send = 0
    /\ ser_open = FALSE
    /\ tx_last = NoTx
    /\ tx_main = 0
    /\ tx_final = 0
    /\ exit_code = "none"

\* choose_port(): no serial port found -> print, sys.exit(1)
ChoosePortNone ==
    /\ IsRelay /\ pc = "choose_port"
    /\ pc' = "exited" /\ exit_code' = "no_port"
    /\ UNCHANGED <<prog, clock, last_send, ser_open, tx_last, tx_main, tx_final, nonRelay>>

\* choose_port(): a port is selected
ChoosePortOk ==
    /\ IsRelay /\ pc = "choose_port"
    /\ pc' = "open_serial"
    /\ UNCHANGED <<prog, clock, relayVars, nonRelay>>

\* serial.Serial(port, BAUD_RATE, timeout=1) succeeds
OpenSerialOk ==
    /\ IsRelay /\ pc = "open_serial"
    /\ ser_open' = TRUE
    /\ pc' = "init_joystick"
    /\ UNCHANGED <<prog, clock, last_send, tx_last, tx_main, tx_final, exit_code, nonRelay>>

\* serial.Serial raises SerialException -> print, sys.exit(1)
OpenSerialFail ==
    /\ IsRelay /\ pc = "open_serial"
    /\ pc' = "exited" /\ exit_code' = "open_failed"
    /\ UNCHANGED <<prog, clock, last_send, ser_open, tx_last, tx_main, tx_final, nonRelay>>

NoController_keepsPort ==
    /\ IsRelay /\ pc = "init_joystick"
    /\ pc' = "exited" /\ exit_code' = "no_controller"
    /\ UNCHANGED <<prog, clock, last_send, ser_open, tx_last, tx_main, tx_final, nonRelay>>

\* pygame.joystick.get_count() == 0 -> print, ser.close(), sys.exit(1)
NoController ==
    /\ IsRelay /\ pc = "init_joystick"
    /\ ser_open' = FALSE
    /\ pc' = "exited" /\ exit_code' = "no_controller"
    /\ UNCHANGED <<prog, clock, last_send, tx_last, tx_main, tx_final, nonRelay>>

\* a controller is present: js.init(), last_send = 0, enter the loop
ControllerOk ==
    /\ IsRelay /\ pc = "init_joystick"
    /\ last_send' = 0
    /\ pc' = "loop"
    /\ UNCHANGED <<prog, clock, ser_open, tx_last, tx_main, tx_final, exit_code, nonRelay>>

\* One iteration of `while True` in which SEND_INTERVAL has not elapsed: the
\* readings are discarded, nothing is written.  dt is the time since the
\* previous clock reading (time.sleep(0.001) keeps it positive).
LoopIterationIdle(dt) ==
    LET now == clock + dt
    IN  /\ IsRelay /\ pc = "loop"
        /\ ~(now - last_send >= SEND_INTERVAL)
        /\ clock' = now
        /\ UNCHANGED <<prog, pc, relayVars, nonRelay>>

\* One iteration in which the packet is written and ser.write returns.
LoopIterationSend_early(dt, lx_raw, ly_raw, rx_raw, l1, r1) ==
    LET now == clock + dt
        lx == scale_axis(lx_raw)
        ly == scale_axis(-ly_raw)
        rx == scale_axis(rx_raw)
    IN  /\ IsRelay /\ pc = "loop"
        /\ now - last_send >= SEND_INTERVAL - 1
        /\ clock' = now
        /\ last_send' = now
        /\ tx_last' = Tx(build_packet(prog, lx, ly, rx, l1, r1), TRUE, "main",
                         <<lx_raw, ly_raw, rx_raw, l1, r1>>, now)
        /\ tx_main' = tx_main + 1
        /\ UNCHANGED <<prog, pc, ser_open, tx_final, exit_code, nonRelay>>

LoopIterationSend(dt, lx_raw, ly_raw, rx_raw, l1, r1) ==
    LET now == clock + dt
        lx == scale_axis(lx_raw)
        ly == scale_axis(-ly_raw)
        rx == scale_axis(rx_raw)
    IN  /\ IsRelay /\ pc = "loop"
        /\ now - last_send >= SEND_INTERVAL
        /\ clock' = now
        /\ last_send' = now
        /\ tx_last' = Tx(build_packet(prog, lx, ly, rx, l1, r1), TRUE, "main",
                         <<lx_raw, ly_raw, rx_raw, l1, r1>>, now)
        /\ tx_main' = tx_main + 1
        /\ UNCHANGED <<prog, pc, ser_open, tx_final, exit_code, nonRelay>>

\* An iteration whose ser.write(packet) raises: the packet was handed to the
\* port, the loop is left (break, or the exception propagates) for `finally`.
LoopWriteFails(dt, lx_raw, ly_raw, rx_raw, l1, r1) ==
    LET now == clock + dt
        lx == scale_axis(lx_raw)
        ly == scale_axis(-ly_raw)
        rx == scale_axis(rx_raw)
    IN  /\ IsRelay /\ pc = "loop"
        /\ now - last_send >= SEND_INTERVAL
        /\ clock' = now
        /\ last_send' = now
        /\ tx_last' = Tx(build_packet(prog, lx, ly, rx, l1, r1), FALSE, "main",
                         <<lx_raw, ly_raw, rx_raw, l1, r1>>, now)
        /\ tx_main' = tx_main + 1
        /\ pc' = "finally"
        /\ UNCHANGED <<prog, ser_open, tx_final, exit_code, nonRelay>>

\* KeyboardInterrupt raised between two iterations (in the sleep, in the
\* readings): nothing is written, control goes to except / finally.
KeyboardInterrupt ==
    /\ IsRelay /\ pc = "loop"
    /\ pc' = "finally"
    /\ UNCHANGED <<prog, clock, relayVars, nonRelay>>

\* KeyboardInterrupt raised after `last_send = now` and before ser.write
KeyboardInterruptBeforeWrite(dt) ==
    LET now == clock + dt
    IN  /\ IsRelay /\ pc = "loop"
        /\ now - last_send >= SEND_INTERVAL
        /\ clock' = now
        /\ last_send' = now
        /\ pc' = "finally"
        /\ UNCHANGED <<prog, ser_open, tx_last, tx_main, tx_final, exit_code, nonRelay>>

FinalWrite_skipAfterFailure(ok) ==
    /\ IsRelay /\ pc = "finally"
    /\ IF tx_last.phase = "main" /\ ~tx_last.ok
       THEN UNCHANGED <<tx_last, tx_final>>
       ELSE /\ tx_last' = Tx(build_packet(prog, 0, 0, 0, 0, 0), ok, "final", NoRaw, clock)
            /\ tx_final' = tx_final + 1
    /\ pc' = "close"
    /\ UNCHANGED <<prog, clock, last_send, ser_open, tx_main, exit_code, nonRelay>>

\* finally: try: ser.write(build_packet(0, 0, 0)) except Exception: pass
FinalWrite(ok) ==
    /\ IsRelay /\ pc = "finally"
    /\ tx_last' = Tx(build_packet(prog, 0, 0, 0, 0, 0), ok, "final", NoRaw, clock)
    /\ tx_final' = tx_final + 1
    /\ pc' = "close"
    /\ UNCHANGED <<prog, clock, last_send, ser_open, tx_main, exit_code, nonRelay>>

\* finally: ser.close(); pygame.quit(); print("[INFO] Motors stopped. Goodbye!")
CloseAndReport ==
    /\ IsRelay /\ pc = "close"
    /\ ser_open' = FALSE
    /\ pc' = "exited" /\ exit_code' = "stopped"
    /\ UNCHANGED <<prog, clock, last_send, tx_last, tx_main, tx_final, nonRelay>>

\* the readings tried in an iteration: every left-stick position, both
\* bumpers, the right stick opposite to the left stick's X
RelayInputs ==
    {<<lx_raw, ly_raw, -lx_raw, l1, r1>> :
        lx_raw \in RawAxis, ly_raw \in RawAxis, l1 \in {0, 1}, r1 \in {0, 1}}

RelayInBounds == clock < StartClock + RelayHorizon

NextRelay ==
    \/ ChoosePortNone
    \/ ChoosePortOk
    \/ OpenSerialOk
    \/ OpenSerialFail
    \/ NoController
    \/ ControllerOk
    \/ \E dt \in 1..MaxDt : RelayInBounds /\ LoopIterationIdle(dt)
    \/ \E dt \in 1..MaxDt, i \in RelayInputs :
          RelayInBounds /\ LoopIterationSend(dt, i[1], i[2], i[3], i[4], i[5])
    \/ \E dt \in 1..MaxDt, i \in RelayInputs :
          RelayInBounds /\ LoopWriteFails(dt, i[1], i[2], i[3], i[4], i[5])
    \/ KeyboardInterrupt
    \/ \E dt \in 1..MaxDt : RelayInBounds /\ KeyboardInterruptBeforeWrite(dt)
    \/ \E ok \in BOOLEAN : FinalWrite(ok)
    \/ CloseAndReport

InitRelay ==
    /\ prog \in {"V2", "V7"}
    /\ pc = "choose_port"
    /\ clock = StartClock
    /\ InitRelayVars
    /\ InitXyVars

SpecRelay == InitRelay /\ [][NextRelay]_vars

----------------------------------------------------------------------------
(* xy.py: manual control with automatic stop on a detected symbol *)

MAX_SPEED == 180
STOP_DURATION == 20
COOLDOWN_T == 30
\* `if len(detection_history) > 5: detection_history.pop(0)`
HistoryWindow == 5
\* `if len(detection_history) >= 3` and `detection_history.count(most_freq) >= 3`
ConsensusCount == 3

\* template ids the matcher reports in the model (the script loads 1..15)
SymbolIds == {1, 2}
\* time.time() advance between two iterations, in tenths of a second
XyDts == {0, 10}
\* stick positions tried: <<axis 0, axis 1, axis 2>> as multiples of 1 / AxisRes
XyInputs == {<<k, AxisRes - Abs(k), -k>> : k \in {-AxisRes, 1}}

IsXy == prog = "xy"

\* int(controller.get_axis(n) * MAX_SPEED)
speed_axis(raw) == TruncDiv(raw * MAX_SPEED, AxisRes)

\* f"<{lx},{ly},{rx}>"
format_packet(lx, ly, rx) ==
    <<"<">> \o IntToStr(lx) \o <<",">> \o IntToStr(ly) \o <<",">> \o IntToStr(rx)
        \o <<">">>

Count(h, v) == Cardinality({i \in DOMAIN h : h[i] = v})

\* detection_history.append(v); if len > 5: pop(0)
PushHistory(h, v) ==
    LET a == Append(h, v)
    IN  IF Len(a) > HistoryWindow THEN Tail(a) ELSE a

\* max(set(valid_ids), key=valid_ids.count): an id with the largest count;
\* which one among equals depends on the set's iteration order
MostFrequent(h) ==
    LET valid == {h[i] : i \in DOMAIN h} \ {-1}
    IN  {m \in valid : \A o \in valid : Count(h, o) <= Count(h, m)}

Consensus_single(h) ==
    LET valid == {h[i] : i \in DOMAIN h} \ {-1}
    IN  IF valid = {} THEN {-1} ELSE valid

\* lines 246-253: the values consensus_id can get from the history h
Consensus(h) ==
    IF Len(h) >= ConsensusCount /\ MostFrequent(h) # {}
    THEN {IF Count(h, m) >= ConsensusCount THEN m ELSE -1 : m \in MostFrequent(h)}
    ELSE {-1}

\* line 271: the stop sequence is over
StopElapsed_late(now) == now - state_timer > STOP_DURATION

StopElapsed(now) == now - state_timer >= STOP_DURATION

\* line 259: the trigger test of STATE_MANUAL
Triggers(c, now) == c # -1

\* the arguments of the iteration's send_robot_packet call
AutoCommand_forward(m) == m

AutoCommand(m) == <<0, 0, 0>>

\* send_robot_packet(lx, ly, rx): returns <<new prev_packet, new tx_last>>.
\* Whether ser.write returns or raises changes nothing (`except: pass`).
send_robot_packet(cmd, now) ==
    LET packet == format_packet(cmd[1], cmd[2], cmd[3])
    IN  IF packet # prev_packet
        THEN <<packet,
               IF ser_open THEN Tx(packet \o <<"\n">>, TRUE, "main", NoRaw, now) ELSE tx_last>>
        ELSE <<prev_packet, tx_last>>

\* serial.Serial(...) succeeds, or raises and the script goes on with ser = None
XYOpenSerial(ok) ==
    /\ IsXy /\ pc = "open_serial"
    /\ ser_open' = ok
    /\ pc' = "init_joystick"
    /\ UNCHANGED <<prog, clock, tx_last, exit_code, xyVars, nonXy>>

\* pygame.joystick.get_count() > 0 or not; either way the script goes on
XYInitController(found) ==
    /\ IsXy /\ pc = "init_joystick"
    /\ controller' = found
    /\ pc' = "loop"
    /\ UNCHANGED <<prog, clock, ser_open, tx_last, exit_code, current_state, state_timer,
                   prev_packet, detection_history, consensus_id, xy_iter, nonXy>>

\* One iteration of the main loop with a frame (ret is True) and no 'q' key.
\*   dt    clock advance up to `now = time.time()`
\*   raw   the stick position
\*   best  <<current_best_id, best_score >= SCORE_THRESHOLD>>
XYFrame(dt, raw, best) ==
    LET m == IF controller
             THEN <<speed_axis(raw[1]), speed_axis(-raw[2]), speed_axis(raw[3])>>
             ELSE <<0, 0, 0>>
        h == PushHistory(detection_history, IF best[2] THEN best[1] ELSE -1)
        now == clock + dt
    IN  /\ IsXy /\ pc = "loop"
        /\ clock' = now
        /\ \E c \in Consensus(h) :
              LET trig == current_state = STATE_MANUAL /\ Triggers(c, now)
                  back == current_state = STATE_AUTO_STOP /\ StopElapsed(now)
                  cmd == IF current_state = STATE_MANUAL /\ ~trig THEN m
                         ELSE AutoCommand(m)
                  sent == send_robot_packet(cmd, now)
                  nstate == IF trig THEN STATE_AUTO_STOP
                            ELSE IF back THEN STATE_MANUAL ELSE current_state
                  ntimer == IF trig \/ back THEN now ELSE state_timer
              IN  /\ current_state' = nstate
                  /\ state_timer' = ntimer
                  /\ detection_history' = IF trig THEN <<>> ELSE h
                  /\ prev_packet' = sent[1]
                  /\ tx_last' = sent[2]
                  \* lines 280-283: consensus_id = -1 during the cooldown
                  /\ consensus_id' = IF nstate = STATE_MANUAL /\ now - ntimer < COOLDOWN_T
                                     THEN -1 ELSE c
                  /\ xy_iter' = [kind |-> "frame", state_in |-> current_state,
                                 history |-> h, consensus |-> c, cmd |-> cmd,
                                 raw |-> IF controller /\ cmd = m THEN raw
                                         ELSE <<0, 0, 0>>,
                                 wrote |-> sent[1] # prev_packet /\ ser_open]
        /\ UNCHANGED <<prog, pc, ser_open, exit_code, controller, nonXy>>

\* cap.read() fails, or 'q' is pressed: leave the loop;
\* `if ser: send_robot_packet(0,0,0); ser.close()`, then "System Exited."
XYExit ==
    LET sent == send_robot_packet(<<0, 0, 0>>, clock)
    IN  /\ IsXy /\ pc = "loop"
        /\ IF ser_open
           THEN /\ prev_packet' = sent[1]
                /\ tx_last' = sent[2]
                /\ ser_open' = FALSE
           ELSE UNCHANGED <<prev_packet, tx_last, ser_open>>
        /\ xy_iter' = [kind |-> "exit"]
        /\ pc' = "exited" /\ exit_code' = "stopped"
        /\ UNCHANGED <<prog, clock, controller, current_state, state_timer,
                       detection_history, consensus_id, nonXy>>

\* matcher outcomes tried: nothing found, a symbol above the threshold, one below
XyBest == {<<-1, FALSE>>} \cup (SymbolIds \X {TRUE}) \cup {<<1, FALSE>>}

XyInBounds == clock < StartClock + XyHorizon

NextXY ==
    \/ \E ok \in BOOLEAN : XYOpenSerial(ok)
    \/ \E found \in BOOLEAN : XYInitController(found)
    \/ \E dt \in XyDts, raw \in XyInputs, best \in XyBest :
          XyInBounds /\ XYFrame(dt, raw, best)
    \/ XYExit

InitXY ==
    /\ prog = "xy"
    /\ pc = "open_serial"
    /\ clock = StartClock
    /\ InitRelayVars
    /\ InitXyVars

SpecXY == InitXY /\ [][NextXY]_vars

----------------------------------------------------------------------------
(* IEEE-754 double arithmetic on the few values the detectors compare.        *)
(* A double is written [num, den, err, exp]: the real number                   *)
(*     num / den + err / (den * 2^exp).                                        *)

\* (x * 2^e) mod q
RECURSIVE MulPow2Mod(_, _, _)
MulPow2Mod(x, e, q) == IF e = 0 THEN x % q ELSE MulPow2Mod((2 * x) % q, e - 1, q)

\* the least k with p * 2^k >= q  (0 < p)
RECURSIVE BinadeShift(_, _)
BinadeShift(p, q) == IF p >= q THEN 0 ELSE 1 + BinadeShift(2 * p, q)

\* p / q for ints 0 <= p <= q, q > 0, rounded to nearest with a 53-bit
\* significand: the quotient is (p * 2^e) / q ulps with 2^52 <= quotient < 2^53;
\* the remainder decides the rounding direction (no ties: see FExact)
FDiv(p, q) ==
    IF p = 0 \/ p = q THEN [num |-> p, den |-> q, err |-> 0, exp |-> 0]
    ELSE LET e == 52 + BinadeShift(p, q)
             rem == MulPow2Mod(p, e, q)
         IN  [num |-> p, den |-> q, exp |-> e,
              err |-> IF 2 * rem < q THEN -rem ELSE q - rem]

\* the real number p / q itself
FExact(p, q) == [num |-> p, den |-> q, err |-> 0, exp |-> 0]

\* 1.0 - x for a double x in [0.5, 1]: the difference is a multiple of x's ulp
\* below 2^52 ulps, so the subtraction is exact
FOneMinus(x) == [num |-> x.den - x.num, den |-> x.den, err |-> -x.err, exp |-> x.exp]

Pow2(n) == IF n <= 0 THEN 1 ELSE 2 ^ n

\* a < b.  Different fractions are further apart than any rounding error;
\* equal fractions are ordered by their rounding errors.
FLess(a, b) ==
    IF a.num * b.den # b.num * a.den
    THEN a.num * b.den < b.num * a.den
    ELSE IF a.err = 0 \/ b.err = 0 THEN a.err < b.err
    ELSE LET m == Min(a.exp, b.exp)
         IN  a.err * b.den * Pow2(b.exp - m) < b.err * a.den * Pow2(a.exp - m)

FGeq(a, b) == ~FLess(a, b)

----------------------------------------------------------------------------
(* The smoothed TRUE/FALSE detectors: sd2.py, sd3.py (first script), *)
(* working2.py and sd4 (second script of sd3.py)                     *)

IsSd == prog \in {"sd2", "sd3", "working2", "sd4"}

\* SMOOTH_FRAMES of each script
SMOOTH_FRAMES_sd2 == 12
SMOOTH_FRAMES_sd3 == 12
SMOOTH_FRAMES_working2 == 8
SMOOTH_FRAMES_sd4 == 4

SMOOTH_FRAMES(p) == CASE p = "sd2" -> SMOOTH_FRAMES_sd2
                      [] p = "sd3" -> SMOOTH_FRAMES_sd3
                      [] p = "working2" -> SMOOTH_FRAMES_working2
                      [] p = "sd4" -> SMOOTH_FRAMES_sd4

\* MAJORITY_PCT of each script, in hundredths: the literals 0.70, 0.70, 0.60, 0.50
MAJORITY_PCT_sd2 == 70
MAJORITY_PCT_sd3 == 70
MAJORITY_PCT_working2 == 60
MAJORITY_PCT_sd4 == 50

MajorityHundredths(p) == CASE p = "sd2" -> MAJORITY_PCT_sd2
                           [] p = "sd3" -> MAJORITY_PCT_sd3
                           [] p = "working2" -> MAJORITY_PCT_working2
                           [] p = "sd4" -> MAJORITY_PCT_sd4

\* the double the literal denotes
MAJORITY_PCT(p) == FDiv(MajorityHundredths(p), 100)

\* DETECT_EVERY_N (sd2, sd3); working2 tests frame_count % 2
DETECT_EVERY_N == 3
WORKING2_EVERY == 2

DetectPeriod(p) == IF p = "working2" THEN WORKING2_EVERY ELSE DETECT_EVERY_N

\* `if len(history) >= 3`
MIN_SAMPLES == 3

\* history.append(x) on a deque with maxlen
DequeAppend(h, x, maxlen) ==
    IF Len(h) >= maxlen THEN Append(Tail(h), x) ELSE Append(h, x)

\* sum(history)
Sum(h) == Cardinality({i \in DOMAIN h : h[i]})

\* true_pct = sum(history) / len(history)
TruePct(h) == FDiv(Sum(h), Len(h))

SmoothedState_noMinSamples(cur, h, p) ==
    IF Len(h) >= 1
    THEN IF cur
         THEN ~FLess(TruePct(h), FOneMinus(MAJORITY_PCT(p)))
         ELSE FGeq(TruePct(h), MAJORITY_PCT(p))
    ELSE cur

\* the "Smoothed state" block: the new current_state
SmoothedState(cur, h, p) ==
    IF Len(h) >= MIN_SAMPLES
    THEN IF cur
         THEN ~FLess(TruePct(h), FOneMinus(MAJORITY_PCT(p)))
         ELSE FGeq(TruePct(h), MAJORITY_PCT(p))
    ELSE cur

\* detect_symbol outcomes tried in sd4 and working2:
\* <<matched, name, inliers, boundary>>
Detections == {<<FALSE, "", 0, "None">>, <<FALSE, "t1", 3, "quad1">>,
               <<TRUE, "t2", 8, "quad2">>}

\* sd2 / sd3: one frame of the main loop; match is the frame's detection
\* outcome, used only when count % DETECT_EVERY_N == 0
FrameSd(match) ==
    LET n == (count + 1) % DetectPeriod(prog)
        h == IF n = 0 THEN DequeAppend(history, match, SMOOTH_FRAMES(prog)) ELSE history
    IN  /\ prog \in {"sd2", "sd3"} /\ pc = "loop"
        /\ count' = n
        /\ history' = h
        /\ current_state' = SmoothedState(current_state, h, prog)
        /\ UNCHANGED <<prog, pc, c_result, latest_gray, worker_busy, worker_pc, nonSd>>

\* working2: one frame of the main loop
FrameWorking2(d) ==
    LET n == (count + 1) % DetectPeriod(prog)
        h == IF n = 0 THEN DequeAppend(history, d[1], SMOOTH_FRAMES(prog)) ELSE history
    IN  /\ prog = "working2" /\ pc = "loop"
        /\ count' = n
        /\ history' = h
        /\ c_result' = IF n = 0 THEN <<d[2], d[3], d[4]>> ELSE c_result
        /\ current_state' = SmoothedState(current_state, h, prog)
        /\ UNCHANGED <<prog, pc, latest_gray, worker_busy, worker_pc, nonSd>>

\* sd4 main loop, first `with lock`: offer the frame unless the worker is busy
Sd4MainOffer ==
    /\ prog = "sd4" /\ pc = "loop"
    /\ latest_gray' = IF ~worker_busy THEN TRUE ELSE latest_gray
    /\ pc' = "read"
    /\ UNCHANGED <<prog, current_state, history, count, c_result, worker_busy,
                   worker_pc, nonSd>>

\* sd4 main loop, second `with lock`: read the results, smooth, then display
Sd4MainRead ==
    /\ prog = "sd4" /\ pc = "read"
    /\ current_state' = SmoothedState(current_state, history, prog)
    /\ pc' = "loop"
    /\ UNCHANGED <<prog, history, count, c_result, latest_gray, worker_busy,
                   worker_pc, nonSd>>

\* detection_worker, first `with lock`: take the latest frame if there is one
Sd4WorkerGrab ==
    /\ prog = "sd4" /\ worker_pc = "grab"
    /\ IF latest_gray
       THEN /\ latest_gray' = FALSE
            /\ worker_pc' = "mark_busy"
            /\ UNCHANGED worker_busy
       ELSE /\ worker_busy' = FALSE
            /\ UNCHANGED <<latest_gray, worker_pc>>
    /\ UNCHANGED <<prog, pc, current_state, history, count, c_result, nonSd>>

\* detection_worker, second `with lock`: worker_busy[0] = True
Sd4WorkerMarkBusy ==
    /\ prog = "sd4" /\ worker_pc = "mark_busy"
    /\ worker_busy' = TRUE
    /\ worker_pc' = "publish"
    /\ UNCHANGED <<prog, pc, current_state, history, count, c_result, latest_gray, nonSd>>

\* detection_worker: detect_symbol(...) returned d; third `with lock`
Sd4WorkerPublish(d) ==
    /\ prog = "sd4" /\ worker_pc = "publish"
    /\ c_result' = <<d[2], d[3], d[4]>>
    /\ history' = DequeAppend(history, d[1], SMOOTH_FRAMES(prog))
    /\ worker_busy' = FALSE
    /\ worker_pc' = "grab"
    /\ UNCHANGED <<prog, pc, current_state, count, latest_gray, nonSd>>

NextSmooth ==
    \/ \E match \in BOOLEAN : FrameSd(match)
    \/ \E d \in Detections : FrameWorking2(d)
    \/ Sd4MainOffer
    \/ Sd4MainRead
    \/ Sd4WorkerGrab
    \/ Sd4WorkerMarkBusy
    \/ \E d \in Detections : Sd4WorkerPublish(d)

InitSmooth ==
    /\ prog \in {"sd2", "sd3", "working2", "sd4"}
    /\ pc = "loop"
    /\ clock = StartClock
    /\ InitRelayVars
    /\ InitXyOnly
    /\ current_state = FALSE
    /\ InitSdOnly
    /\ InitOrOnly
    /\ InitPlOnly
    /\ InitLkOnly

SpecSmooth == InitSmooth /\ [][NextSmooth]_vars

----------------------------------------------------------------------------
(* oracle2.py: detector thread, debounce, tracker hand-off and revalidation *)

\* time between two looks at the clock, in tenths of a second
Quantum == 10
\* the detector's result changes at most this often in a run (it is published
\* again unchanged any number of times)
MaxDetChanges == 2

\* what DetectorThread.run can publish: nothing found, or a template with its
\* score (inliers * inlier_ratio; whole numbers here, so that sums and means of
\* scores are exact in double arithmetic)
TemplateNames == {"A", "B"}
DetectorResults ==
    {NoDetection, [name |-> "A", score |-> 6], [name |-> "A", score |-> 10],
     [name |-> "B", score |-> 10]}

IsOracle == prog = "oracle2"

\* is the program in its tracking branch: `if tracking and tracker is not None`
InTracking == tracking /\ tracker

CountName(r, n) == Cardinality({i \in DOMAIN r : r[i][1] = n})

FirstIndex(r, n) == CHOOSE i \in DOMAIN r : r[i][1] = n /\ \A j \in 1..(i - 1) : r[j][1] # n

\* names = [r[0] for r in recent if r[0] is not None]
Names(r) == {r[i][1] : i \in DOMAIN r} \ {NoName}

\* Counter(names).most_common(1)[0][0]: the largest count, the first
\* encountered among equals; None (NoName) when names is empty
MostCommon(r) ==
    IF Names(r) = {} THEN NoName
    ELSE CHOOSE n \in Names(r) : \A m \in Names(r) \ {n} :
            \/ CountName(r, n) > CountName(r, m)
            \/ CountName(r, n) = CountName(r, m) /\ FirstIndex(r, n) < FirstIndex(r, m)

\* sum(scores_for_candidate)
RECURSIVE ScoreSum(_, _)
ScoreSum(r, n) ==
    IF r = <<>> THEN 0
    ELSE (IF Head(r)[1] = n THEN Head(r)[2] ELSE 0) + ScoreSum(Tail(r), n)

DetectedNow_anyName(r) ==
    /\ MostCommon(r) # NoName
    /\ Cardinality({i \in DOMAIN r : r[i][1] # NoName}) >= DETECTION_REQUIRED_COUNT
    /\ ScoreSum(r, MostCommon(r)) >= DETECTION_SCORE_THRESHOLD * CountName(r, MostCommon(r))

\* detected_now: count >= DETECTION_REQUIRED_COUNT and
\* avg_score = sum / len >= DETECTION_SCORE_THRESHOLD
DetectedNow(r) ==
    /\ MostCommon(r) # NoName
    /\ CountName(r, MostCommon(r)) >= DETECTION_REQUIRED_COUNT
    /\ ScoreSum(r, MostCommon(r)) >= DETECTION_SCORE_THRESHOLD * CountName(r, MostCommon(r))

\* the candidate read from the shared result: accepted only if recent
Candidate_noFreshness(det, age) ==
    IF det # NoDetection THEN <<det.name, det.score>> ELSE NoCandidate

Candidate(det, age) ==
    IF det # NoDetection /\ age < FRESH_WITHIN THEN <<det.name, det.score>>
    ELSE NoCandidate

\* the revalidation test of the tracking branch fails
RevalidationFails(det, age, announced) ==
    det = NoDetection \/ det.name # announced \/ age > STALE_AFTER

\* time.time() - stamp, dt later
AgeOfDetection(age, dt) == IF age > STALE_AFTER THEN age ELSE Min(age + dt, Old)

AgeOfRevalidation(age, dt) == Min(age + dt, REVALIDATE_EVERY_N_SEC)

\* DetectorThread.run: one pass over a frame ends in `with result_lock`
DetectorPublish(best_candidate) ==
    /\ IsOracle /\ pc = "loop"
    /\ latest_frame
    /\ best_candidate # last_detection => det_changes < MaxDetChanges
    /\ det_changes' = IF best_candidate # last_detection THEN det_changes + 1
                      ELSE det_changes
    /\ last_detection' = best_candidate
    /\ det_age' = 0
    /\ UNCHANGED <<prog, pc, latest_frame, tracker, tracking, tracker_lost, reval_age,
                   last_announced, recent, or_iter, nonOr>>

\* `break` on 'q', then finally: run() returns, its locals and the shared
\* dictionary are gone
OracleExit(iter) ==
    /\ pc' = "exited"
    /\ latest_frame' = FALSE
    /\ last_detection' = NoDetection
    /\ det_age' = Old
    /\ tracker' = FALSE
    /\ tracking' = FALSE
    /\ tracker_lost' = 0
    /\ reval_age' = REVALIDATE_EVERY_N_SEC
    /\ last_announced' = NoName
    /\ recent' = <<>>
    /\ or_iter' = iter
    /\ UNCHANGED <<prog, det_changes, nonOr>>

\* One iteration of the main loop outside the tracking branch.
\*   dt       time since the previous iteration of the main loop
\*   started  the bounding box is larger than 10 x 10 and tracker.init returns
\*   key      the key waitKey reports: "none", "c" or "q"
MainScan(dt, started, key) ==
    LET age == AgeOfDetection(det_age, dt)
        cand == Candidate(last_detection, age)
        r == DequeAppend(recent, cand, DEBOUNCE_WINDOW)
        detected_now == DetectedNow(r)
        \* candidate_H is not None exactly when a candidate was accepted
        start == detected_now /\ cand # NoCandidate /\ started
        \* old: the shared result was older than 1.2 s when it was read
        iter == [kind |-> "scan", old |-> age > FRESH_WITHIN, candidate |-> cand,
                 detected |-> detected_now,
                 window |-> IF detected_now THEN r ELSE <<>>,
                 started |-> start, key |-> key]
    IN  /\ IsOracle /\ pc = "loop" /\ ~InTracking
        /\ started => (detected_now /\ cand # NoCandidate)
        /\ IF key = "q" THEN OracleExit(iter)
           ELSE /\ latest_frame' = TRUE
                /\ det_age' = age
                /\ recent' = IF key = "c" THEN <<>> ELSE r
                /\ last_announced' = IF key = "c" THEN NoName
                                      ELSE IF detected_now THEN MostCommon(r)
                                      ELSE last_announced
                /\ tracking' = (start /\ key # "c")
                /\ tracker' = (start /\ key # "c")
                /\ tracker_lost' = IF start THEN 0 ELSE tracker_lost
                /\ reval_age' = IF start THEN 0 ELSE AgeOfRevalidation(reval_age, dt)
                /\ or_iter' = iter
                /\ UNCHANGED <<prog, pc, last_detection, det_changes, nonOr>>

\* One iteration of the main loop in the tracking branch.
\*   ok   what tracker.update(frame) reports
MainTrack(dt, ok, key) ==
    LET age == AgeOfDetection(det_age, dt)
        due == ok /\ AgeOfRevalidation(reval_age, dt) >= REVALIDATE_EVERY_N_SEC
        fails == RevalidationFails(last_detection, age, last_announced)
        lost == IF ok
                THEN (IF due /\ fails THEN 1 ELSE 0)
                ELSE tracker_lost + 1
        drop == lost > TRACKER_MAX_LOST
        clear == drop \/ key = "c"
        \* streak: how many tracker.update calls in a row have failed
        iter == [kind |-> "track", ok |-> ok,
                 reval |-> IF ~due THEN "none" ELSE IF fails THEN "failed" ELSE "passed",
                 streak |-> IF ok THEN 0
                            ELSE IF or_iter.kind = "track" THEN or_iter.streak + 1 ELSE 1,
                 dropped |-> drop, key |-> key]
    IN  /\ IsOracle /\ pc = "loop" /\ InTracking
        /\ IF key = "q" THEN OracleExit(iter)
           ELSE /\ latest_frame' = TRUE
                /\ det_age' = age
                /\ reval_age' = IF due THEN 0 ELSE AgeOfRevalidation(reval_age, dt)
                /\ tracker_lost' = IF drop THEN 0 ELSE lost
                /\ tracking' = ~clear
                /\ tracker' = ~clear
                /\ recent' = IF clear THEN <<>> ELSE recent
                /\ last_announced' = IF clear THEN NoName ELSE last_announced
                /\ or_iter' = iter
                /\ UNCHANGED <<prog, pc, last_detection, det_changes, nonOr>>

Keys == {"none", "c", "q"}

OracleDts == {0, Quantum}

NextOracle ==
    \/ \E d \in DetectorResults : DetectorPublish(d)
    \/ \E dt \in OracleDts, started \in BOOLEAN, key \in Keys : MainScan(dt, started, key)
    \/ \E dt \in OracleDts, ok \in BOOLEAN, key \in Keys : MainTrack(dt, ok, key)

InitOracle ==
    /\ prog = "oracle2"
    /\ pc = "loop"
    /\ clock = StartClock
    /\ InitRelayVars
    /\ InitXyVars

SpecOracle == InitOracle /\ [][NextOracle]_vars

\* the main loop keeps iterating while time passes (each iteration waits for a
\* camera frame and 1 ms in waitKey)
SpecOracleFair ==
    /\ SpecOracle
    /\ WF_vars(\E ok \in BOOLEAN, key \in Keys : MainTrack(Quantum, ok, key))
    /\ WF_vars(\E started \in BOOLEAN, key \in Keys : MainScan(Quantum, started, key))

----------------------------------------------------------------------------
(* The teleoperation scripts together: the two relays and xy.py *)

SpecTeleop == (InitRelay \/ InitXY) /\ [][NextRelay \/ NextXY]_vars

-----------------------------------------------------------------------------
(* The path planners: Digital_Map/digital_map.py and path/try2.py .. try9.py *)
(*                                                                           *)
(* One iteration of a planner's main loop handles the queued events and then *)
(* calls move_robot when mode is 3.  The model has one action per event      *)
(* handler (MouseDown, KeyDown) and one for the rest of the iteration        *)
(* (Frame).  Lengths of digital_map.py are in mm, times in ms.  The try*.py  *)
(* files turn and drive the robot with atan2, cos and sin on pixel           *)
(* coordinates; their model leaves the pose out and takes the outcome of the *)
(* distance test (`d > 5`) as an input of the frame.                         *)

PlannerProgs == {"digital_map", "try2", "try3", "try4", "try5", "try7", "try8", "try9"}

IsPlanner == prog \in PlannerProgs

IsDigitalMap == prog = "digital_map"

\* try8.py and try9.py have the BTNS table, key handlers and `return` after a
\* KFS was collected
IsSidebar == prog \in {"try8", "try9"}

\* longest path the sampled clicks build
MaxPathLen == 2

MAX_KFS == IF IsDigitalMap THEN 8 ELSE 4

\* `pause_until = time.time() + 2` (digital_map.py), `+ 5` (try*.py)
KfsPause == IF IsDigitalMap THEN 2000 ELSE 5000

ROBOT_SPEED == 800

FIELD_W_MM == 6000

FIELD_H_MM == 12100

GRID_MC == 100

GRID_FOREST == 120

\* <<block_num, x_mm, y_mm, w_mm, h_mm>>
FOREST_BLOCKS ==
    << <<1, 3625, 3250, 1200, 1200>>, <<2, 2425, 3250, 1200, 1200>>,
       <<3, 1225, 3250, 1200, 1200>>, <<4, 3625, 4450, 1200, 1200>>,
       <<5, 2425, 4450, 1200, 1200>>, <<6, 1225, 4450, 1200, 1200>>,
       <<7, 3625, 5650, 1200, 1200>>, <<8, 2425, 5650, 1200, 1200>>,
       <<9, 1225, 5650, 1200, 1200>>, <<10, 3625, 6850, 1200, 1200>>,
       <<11, 2425, 6850, 1200, 1200>>, <<12, 1225, 6850, 1200, 1200>> >>

InBlock(b, x_mm, y_mm) ==
    /\ b[2] <= x_mm /\ x_mm <= b[2] + b[4]
    /\ b[3] <= y_mm /\ y_mm <= b[3] + b[5]

\* the first block of the table that holds the point, NoCell for None
get_forest_block_at(x_mm, y_mm) ==
    LET hits == {i \in 1..Len(FOREST_BLOCKS) : InBlock(FOREST_BLOCKS[i], x_mm, y_mm)}
    IN  IF hits = {} THEN NoCell
        ELSE FOREST_BLOCKS[CHOOSE i \in hits : \A j \in hits : i <= j]

\* get_zone_at looks at the forest blocks first; every other zone, and the
\* default, has a grid of 100 mm
get_grid_for_pos(x_mm, y_mm) ==
    IF get_forest_block_at(x_mm, y_mm) # NoCell THEN GRID_FOREST ELSE GRID_MC

\* int() truncates; grid / 2 is 50 or 60
snap_to_grid(x_mm, y_mm, grid_mm) ==
    << TruncDiv(x_mm, grid_mm) * grid_mm + grid_mm \div 2,
       TruncDiv(y_mm, grid_mm) * grid_mm + grid_mm \div 2 >>

\* try2.py: the frozenset built by _build_obstacle_set, as its rectangles
InBox(cell, r0, r1, c0, c1) ==
    /\ r0 <= cell[1] /\ cell[1] <= r1
    /\ c0 <= cell[2] /\ cell[2] <= c1

is_cell_blocked(cell) ==
    \/ InBox(cell, 8, 19, 3, 11)
    \/ InBox(cell, 0, 2, 0, 2)
    \/ InBox(cell, 0, 2, 13, 15)
    \/ InBox(cell, 1, 3, 0, 1)
    \/ InBox(cell, 23, 25, 9, 15)
    \/ InBox(cell, 25, 26, 1, 4)
    \/ InBox(cell, 29, 30, 0, 2)
    \/ InBox(cell, 29, 30, 13, 15)

validate_path(path) == \A i \in 1..Len(path) : ~is_cell_blocked(path[i])

\* ---- lists ----

InList(list, x) == \E i \in 1..Len(list) : list[i] = x

\* list.remove(x): the first occurrence goes
ListRemove(list, x) ==
    LET i == CHOOSE k \in 1..Len(list) : list[k] = x /\ \A j \in 1..(k - 1) : list[j] # x
    IN  [k \in 1..(Len(list) - 1) |-> IF k < i THEN list[k] ELSE list[k + 1]]

\* kfs_cells is only appended to, searched, removed from and measured, and no
\* two KFS of digital_map.py are within 200 mm of one cell (block centres are
\* 1200 mm apart), so the order of the list never shows: the model keeps the
\* bag of its elements.
KfsCount(kfs, x) == IF x \in DOMAIN kfs THEN kfs[x] ELSE 0

RECURSIVE KfsLenOver(_, _)
KfsLenOver(kfs, dom) ==
    IF dom = {} THEN 0
    ELSE LET x == CHOOSE y \in dom : TRUE
         IN  kfs[x] + KfsLenOver(kfs, dom \ {x})

KfsLen(kfs) == KfsLenOver(kfs, DOMAIN kfs)

KfsAppend(kfs, x) ==
    [y \in DOMAIN kfs \cup {x} |-> IF y = x THEN KfsCount(kfs, x) + 1 ELSE kfs[y]]

KfsRemove(kfs, x) ==
    IF kfs[x] = 1 THEN [y \in DOMAIN kfs \ {x} |-> kfs[y]]
    ELSE [kfs EXCEPT ![x] = @ - 1]

\* ---- the state the handlers work on ----

Cur ==
    [mode |-> mode, start_cell |-> start_cell, path_cells |-> path_cells,
     kfs_cells |-> kfs_cells, robot |-> robot, target_index |-> target_index,
     task_done |-> task_done, pause_left |-> pause_left, run_log |-> run_log,
     note |-> Idle]

Becomes(st) ==
    /\ mode' = st.mode
    /\ start_cell' = st.start_cell
    /\ path_cells' = st.path_cells
    /\ kfs_cells' = st.kfs_cells
    /\ robot' = st.robot
    /\ target_index' = st.target_index
    /\ task_done' = st.task_done
    /\ pause_left' = st.pause_left
    /\ run_log' = st.run_log
    /\ pl_iter' = st.note

\* reset_all().  try2.py leaves mode to its caller; try8.py and try9.py also
\* clear pause_until.
reset_all(st) ==
    [st EXCEPT !.start_cell = NoCell,
               !.path_cells = <<>>,
               !.kfs_cells = EmptyKfs,
               !.robot = <<0, 0>>,
               !.target_index = 0,
               !.run_log = <<>>,
               !.task_done = FALSE,
               !.mode = IF prog = "try2" THEN @ ELSE 0,
               !.pause_left = IF IsSidebar THEN 0 ELSE @]

RunAllowed_startOnly(st) == st.start_cell # NoCell
\* `if start_cell and path_cells:` and, in try2.py, validate_path
RunAllowed(st) ==
    /\ st.start_cell # NoCell
    /\ st.path_cells # <<>>
    /\ prog = "try2" => validate_path(st.path_cells)

\* the RUN button, and the SPACE key of try8.py and try9.py.  run_log is the
\* part of the log written since the run started.
RunRequest(st) ==
    IF RunAllowed(st)
    THEN [st EXCEPT !.mode = 3,
                    !.target_index = 0,
                    !.task_done = FALSE,
                    !.run_log = <<>>,
                    !.pause_left = IF IsSidebar THEN 0 ELSE @,
                    !.note = [kind |-> "run", ok |-> TRUE]]
    ELSE [st EXCEPT !.note = [kind |-> "run", ok |-> FALSE]]

Buttons == {"none", "start", "path", "run", "kfs", "reset"}

\* the if/elif chain over the buttons
ButtonPart(st, btn) ==
    CASE btn = "start" -> [st EXCEPT !.mode = 1]
      [] btn = "path"  -> [st EXCEPT !.mode = 2]
      [] btn = "run"   -> RunRequest(st)
      [] btn = "kfs"   -> [st EXCEPT !.mode = 4]
      [] btn = "reset" -> [reset_all(st) EXCEPT !.mode = 0]
      [] OTHER         -> st

\* mode 2 of the try*.py files; try5.py appends without looking for the cell
TryPathClick(st, cell, ctrl) ==
    IF ctrl
    THEN IF InList(st.path_cells, cell)
         THEN [st EXCEPT !.path_cells = ListRemove(@, cell)]
         ELSE st
    ELSE IF prog = "try5"
         THEN [st EXCEPT !.path_cells = Append(@, cell)]
         ELSE IF InList(st.path_cells, cell) \/ (prog = "try2" /\ is_cell_blocked(cell))
              THEN st
              ELSE [st EXCEPT !.path_cells = Append(@, cell)]

KfsHasRoom_noLimit(st) == TRUE
\* `len(kfs_cells) < MAX_KFS`
KfsHasRoom(st) == KfsLen(st.kfs_cells) < MAX_KFS

\* mode 4 of the try*.py files; try5.py appends without looking for the cell
TryKfsClick(st, cell, ctrl) ==
    IF ctrl
    THEN IF KfsCount(st.kfs_cells, cell) > 0
         THEN [st EXCEPT !.kfs_cells = KfsRemove(@, cell)]
         ELSE st
    ELSE IF KfsHasRoom(st) /\ (prog = "try5" \/ KfsCount(st.kfs_cells, cell) = 0)
         THEN [st EXCEPT !.kfs_cells = KfsAppend(@, cell)]
         ELSE st

\* `if cell:` and the branches on mode (try*.py)
TryMapPart(st, cell, ctrl) ==
    IF cell = NoCell THEN st
    ELSE CASE st.mode = 1 -> [st EXCEPT !.start_cell = cell]
           [] st.mode = 2 -> TryPathClick(st, cell, ctrl)
           [] st.mode = 4 -> TryKfsClick(st, cell, ctrl)
           [] OTHER       -> st

\* digital_map.py, mode 2: a click on a selected cell, or with Ctrl, removes
DmPathClick(st, cell, ctrl) ==
    IF ctrl \/ InList(st.path_cells, cell)
    THEN IF InList(st.path_cells, cell)
         THEN [st EXCEPT !.path_cells = ListRemove(@, cell)]
         ELSE st
    ELSE [st EXCEPT !.path_cells = Append(@, cell)]

\* `existing = [k for k in kfs_cells if k[0] == bnum]`
KfsOnBlock(kfs, bnum) == {k \in DOMAIN kfs : k[1] = bnum}

KfsPlace_atClick(fb, x_mm, y_mm) == <<fb[1], x_mm, y_mm>>
\* `(bnum, cx, cy)` with cx = fb[1] + fb[3] / 2, cy = fb[2] + fb[4] / 2
KfsPlace(fb, x_mm, y_mm) == <<fb[1], fb[2] + fb[4] \div 2, fb[3] + fb[5] \div 2>>

\* digital_map.py, mode 4
DmKfsClick(st, x_mm, y_mm, ctrl) ==
    LET fb == get_forest_block_at(x_mm, y_mm)
        existing == KfsOnBlock(st.kfs_cells, fb[1])
    IN  IF fb = NoCell THEN st
        ELSE IF ctrl
             THEN IF existing # {}
                  THEN [st EXCEPT !.kfs_cells = KfsRemove(@, CHOOSE k \in existing : TRUE)]
                  ELSE st
             ELSE IF existing = {} /\ KfsHasRoom(st)
                  THEN [st EXCEPT !.kfs_cells = KfsAppend(@, KfsPlace(fb, x_mm, y_mm))]
                  ELSE st

\* digital_map.py, the `else:` of the button chain: a click on the map
DmMapPart(st, pos, ctrl) ==
    IF pos = NoCell THEN st
    ELSE LET x_mm == pos[1]
             y_mm == pos[2]
             cell == snap_to_grid(x_mm, y_mm, get_grid_for_pos(x_mm, y_mm))
         IN  IF ~(0 <= x_mm /\ x_mm <= FIELD_W_MM /\ 0 <= y_mm /\ y_mm <= FIELD_H_MM)
             THEN st
             ELSE CASE st.mode = 1 -> [st EXCEPT !.start_cell = cell, !.robot = cell]
                    [] st.mode = 2 -> DmPathClick(st, cell, ctrl)
                    [] st.mode = 4 -> DmKfsClick(st, x_mm, y_mm, ctrl)
                    [] OTHER       -> st

MapPart(st, pos, ctrl) ==
    IF IsDigitalMap THEN DmMapPart(st, pos, ctrl) ELSE TryMapPart(st, pos, ctrl)

\* A click lands on a button and on the map at once only in try2.py ..
\* try7.py: their arena rectangle follows the window size and can lie under
\* the buttons, and they look the cell up after the button chain.  In
\* digital_map.py the map is the `else:` of the buttons, try9.py skips the
\* arena when a button was hit, and the arena of try8.py begins right of the
\* sidebar that holds the buttons.
ClickPossible(btn, pos) ==
    (btn # "none" /\ pos # NoCell) => prog \in {"try2", "try3", "try4", "try5", "try7"}

\* pygame.MOUSEBUTTONDOWN.  pos is the cell under the mouse (try*.py) or the
\* point under it in mm (digital_map.py), NoCell when there is none.
MouseDown(btn, pos, ctrl) ==
    /\ IsPlanner /\ pc = "loop"
    /\ ClickPossible(btn, pos)
    /\ LET st == MapPart(ButtonPart([Cur EXCEPT !.note = [kind |-> "click"]], btn), pos, ctrl)
       IN  /\ Len(st.path_cells) <= MaxPathLen
           /\ Becomes(st)
    /\ UNCHANGED <<prog, nonPl>>

\* pygame.KEYDOWN of try8.py and try9.py: R and SPACE
KeyDown(key) ==
    /\ IsSidebar /\ pc = "loop"
    /\ Becomes(CASE key = "r" -> reset_all([Cur EXCEPT !.note = [kind |-> "key"]])
                 [] key = "space" /\ mode # 3 -> RunRequest(Cur)
                 [] OTHER -> [Cur EXCEPT !.note = [kind |-> "key"]])
    /\ UNCHANGED <<prog, nonPl>>

\* ---- move_robot ----

PathFinished_never(st) == FALSE
\* `if target_index >= len(path_cells):`
PathFinished(st) == st.target_index >= Len(st.path_cells)

\* path_cells[target_index]; an index outside the list raises IndexError
\* (a negative one would count from the end)
ReadTarget(st) ==
    IF st.target_index + 1 \in DOMAIN st.path_cells
    THEN st.path_cells[st.target_index + 1]
    ELSE NoCell

SqDist(p, q) == (q[1] - p[1]) * (q[1] - p[1]) + (q[2] - p[2]) * (q[2] - p[2])

\* the whole root, exact on the sampled geometry (Exact below)
RECURSIVE RootBetween(_, _, _)
RootBetween(n, lo, hi) ==
    IF lo >= hi THEN lo
    ELSE LET mid == (lo + hi + 1) \div 2
         IN  IF mid * mid <= n THEN RootBetween(n, mid, hi) ELSE RootBetween(n, lo, mid - 1)

Hypot(p, q) == RootBetween(SqDist(p, q), 0, FIELD_W_MM + FIELD_H_MM)

\* `for kfs in kfs_cells[:]` ... `if math.hypot(tx - kx, ty - ky) < 200:`
KfsNear(kfs, target) == {k \in DOMAIN kfs : SqDist(target, <<k[2], k[3]>>) < 200 * 200}

DmCollect(st, target) ==
    LET near == KfsNear(st.kfs_cells, target)
    IN  IF near = {} THEN st
        ELSE [st EXCEPT !.pause_left = KfsPause,
                        !.kfs_cells = KfsRemove(@, CHOOSE k \in near : TRUE),
                        !.run_log = Append(@, <<"kfs">>)]

\* `step = ROBOT_SPEED * dt`, dt in ms
Step(dt) == (ROBOT_SPEED * dt) \div 1000

DmAdvance_noSnap(st, target, dt) ==
    LET d == Hypot(st.robot, target)
        step == Step(dt)
    IN  IF SqDist(st.robot, target) > 20 * 20
        THEN [st EXCEPT !.robot = << @[1] + TruncDiv(step * (target[1] - @[1]), d),
                                     @[2] + TruncDiv(step * (target[2] - @[2]), d) >>]
        ELSE [st EXCEPT !.robot = target,
                        !.run_log = Append(@, <<"reached", st.target_index + 1>>),
                        !.target_index = @ + 1]

\* "Move directly toward target cell center"
DmAdvance(st, target, dt) ==
    LET d == Hypot(st.robot, target)
        dx == target[1] - st.robot[1]
        dy == target[2] - st.robot[2]
        step == Step(dt)
    IN  IF SqDist(st.robot, target) > 20 * 20
        THEN IF step * step >= SqDist(st.robot, target)
             THEN [st EXCEPT !.robot = target]
             ELSE [st EXCEPT !.robot = << @[1] + TruncDiv(step * dx, d),
                                          @[2] + TruncDiv(step * dy, d) >>]
        ELSE [st EXCEPT !.robot = target,
                        !.run_log = Append(@, <<"reached", st.target_index + 1>>),
                        !.target_index = @ + 1]

\* try*.py: `if target_cell in kfs_cells:`
TryCollect(st, target) ==
    IF KfsCount(st.kfs_cells, target) > 0
    THEN [st EXCEPT !.pause_left = KfsPause,
                    !.kfs_cells = KfsRemove(@, target),
                    !.run_log = Append(@, <<"kfs">>)]
    ELSE st

\* try*.py: turning, driving (`d > 5`) or, else, the next waypoint; only
\* try8.py and try9.py log the waypoint
TryAdvance(st, arrived) ==
    IF arrived
    THEN [st EXCEPT !.target_index = @ + 1,
                    !.run_log = IF IsSidebar THEN Append(@, <<"reached", st.target_index + 1>>)
                                ELSE @]
    ELSE st

\* move_robot(dt): st.pause_left is pause_until - time.time() at the call
move_robot(st, dt, arrived) ==
    IF st.task_done \/ st.pause_left > 0 THEN st
    ELSE IF PathFinished(st)
    THEN [st EXCEPT !.run_log = Append(@, <<"done">>), !.task_done = TRUE, !.mode = 0]
    ELSE LET target == ReadTarget(st)
             rd == [st EXCEPT !.note = [kind |-> "read", index |-> st.target_index,
                                        len |-> Len(st.path_cells)]]
         IN  IF target = NoCell THEN rd
             ELSE IF IsDigitalMap THEN DmAdvance(DmCollect(rd, target), target, dt)
             ELSE IF IsSidebar /\ KfsCount(st.kfs_cells, target) > 0 THEN TryCollect(rd, target)
             ELSE TryAdvance(TryCollect(rd, target), arrived)

\* the loop iteration after its events: elapsed ms have passed since the last
\* one (`clock.tick(60)`), and move_robot runs when mode is 3.  digital_map.py
\* hands the elapsed time on as dt; try8.py and try9.py cap dt, which only the
\* pose uses.
AfterFrame(elapsed, arrived) ==
    LET st == [Cur EXCEPT !.pause_left = IF @ > elapsed THEN @ - elapsed ELSE 0,
                          !.note = [kind |-> "frame"]]
    IN  IF mode = 3 THEN move_robot(st, elapsed, arrived) ELSE st

Frame(elapsed, arrived) ==
    /\ IsPlanner /\ pc = "loop"
    /\ IsDigitalMap => ~arrived
    /\ Becomes(AfterFrame(elapsed, arrived))
    /\ UNCHANGED <<prog, nonPl>>

\* pygame.QUIT, or ESC in try8.py and try9.py, as the last event of its
\* iteration: the iteration is finished, then the loop ends and the process
\* with its state is gone
Quit(elapsed, arrived) ==
    /\ IsPlanner /\ pc = "loop"
    /\ IsDigitalMap => ~arrived
    /\ pc' = "exited"
    /\ Becomes([reset_all(Cur) EXCEPT !.mode = 0, !.pause_left = 0,
                                      !.note = AfterFrame(elapsed, arrived).note])
    /\ UNCHANGED <<prog, clock, relayVars, xyVars, sdOnly, orOnly, lkOnly>>

\* ---- sampled inputs ----

\* cells of the try*.py grids: <<row, col>>; <<8, 3>> is an obstacle of try2.py
TryCells == {<<4, 5>>, <<4, 6>>, <<5, 5>>, <<5, 6>>, <<8, 3>>}

\* points of the digital_map.py field in mm.  The first three snap to the
\* cell centres (1860, 3900), (2220, 4380) and (2220, 3900) of forest block 3,
\* which are 600, 360 and 480 mm apart; the first is 61 mm from the block's
\* centre.
DmCells == {<<1850, 3850>>, <<2200, 4400>>, <<2200, 3850>>}

\* the middle of forest blocks 1..9, a point on the edge that blocks 2 and 3
\* share, a point of the field outside the forest and a point off the field
DmBlockPoints == {<<FOREST_BLOCKS[i][2] + 600, FOREST_BLOCKS[i][3] + 600>> : i \in 1..9}

DmOtherPoints == {<<2425, 3850>>, <<50, 50>>, <<6100, 50>>}

\* what a sampled user clicks on in each mode
EditClicks ==
    [start |-> IF IsDigitalMap THEN {<<1850, 3850>>} ELSE {<<4, 5>>},
     path  |-> IF IsDigitalMap THEN DmCells ELSE {<<4, 5>>, <<4, 6>>, <<8, 3>>},
     kfs   |-> IF IsDigitalMap THEN {<<1825, 3850>>, <<50, 50>>} ELSE {<<4, 5>>, <<5, 5>>},
     idle  |-> IF IsDigitalMap THEN {<<50, 50>>} ELSE {<<4, 5>>}]

KfsClicks ==
    [start |-> IF IsDigitalMap THEN {<<1850, 3850>>} ELSE {<<4, 5>>},
     path  |-> IF IsDigitalMap THEN {<<1850, 3850>>} ELSE {<<4, 5>>},
     kfs   |-> IF IsDigitalMap THEN DmBlockPoints \cup DmOtherPoints ELSE TryCells,
     idle  |-> IF IsDigitalMap THEN {<<50, 50>>} ELSE {<<4, 5>>}]

RunClicks ==
    [start |-> {<<1850, 3850>>, <<2200, 3850>>},
     path  |-> DmCells,
     kfs   |-> {<<1825, 3850>>},
     idle  |-> {<<50, 50>>}]

\* the mode the map part of a click sees
ModeAfter(btn) == ButtonPart(Cur, btn).mode

ClicksIn(samples, m) ==
    {NoCell} \cup (CASE m = 1 -> samples.start
                     [] m = 2 -> samples.path
                     [] m = 4 -> samples.kfs
                     [] OTHER -> samples.idle)

Clicking(samples) ==
    \E btn \in Buttons, ctrl \in BOOLEAN :
        \E pos \in ClicksIn(samples, ModeAfter(btn)) : MouseDown(btn, pos, ctrl)

Typing == \E key \in {"r", "space", "up"} : KeyDown(key)

\* a slow frame: digital_map.py reaches any sampled cell in one step
SlowFrames == {2500}

\* steps of 100 mm and 340 mm
RunFrames == {125, 425}

Running(frames) == \E elapsed \in frames, arrived \in BOOLEAN : Frame(elapsed, arrived)

Quitting(frames) == \E elapsed \in frames, arrived \in BOOLEAN : Quit(elapsed, arrived)

InitPlanner ==
    /\ prog \in PlannerProgs
    /\ pc = "loop"
    /\ clock = 0
    /\ InitRelayVars
    /\ InitXyVars

\* every planner, with clicks that edit start, path and KFS in any order
NextPlanner ==
    \/ Clicking(EditClicks)
    \/ Typing
    \/ Running(SlowFrames)
    \/ Quitting(SlowFrames)

SpecPlanner == InitPlanner /\ [][NextPlanner]_vars

\* every planner, with clicks on more cells than MAX_KFS while placing KFS
NextKfs ==
    \/ Clicking(KfsClicks)
    \/ Typing
    \/ Running(SlowFrames)
    \/ Quitting(SlowFrames)

SpecKfs == InitPlanner /\ [][NextKfs]_vars

\* digital_map.py with the user's hands off while the robot runs
InitRun == InitPlanner /\ IsDigitalMap

NextRun ==
    \/ mode # 3 /\ Clicking(RunClicks)
    \/ Running(RunFrames)
    \/ mode # 3 /\ Quitting(RunFrames)

SpecRun == InitRun /\ [][NextRun]_vars

\* frames keep arriving
SpecRunFair == SpecRun /\ WF_vars(Running(RunFrames))

-----------------------------------------------------------------------------
(* The threaded detectors statement by statement: oracle2.py and sd4 (the   *)
(* last script kept in sd3.py).  The models above take each `with lock:`    *)
(* block as one step; here every statement of the blocks that touch the     *)
(* shared result is a step of its own, and so is entering and leaving a     *)
(* block.  pc is the next statement of the main loop, worker_pc the next    *)
(* statement of the detector thread.  A detection is known by its number:   *)
(* the n-th detection writes n into every part of the result it publishes.  *)
(* oracle2.py guards latest_frame with a lock of its own (frame_lock),      *)
(* which is left out.                                                       *)

\* detections the detector thread makes
MaxDetections == 2

IsThreaded == prog \in {"oracle2", "sd4"}

LockFree_ownLock(thread) == TRUE
\* threading.Lock(): `with lock:` waits while a thread is inside a block
LockFree(thread) == lk_held = {}

\* `with lock:` entered and left
Enter(thread) == LockFree(thread) /\ lk_held' = lk_held \cup {thread}

Leave(thread) == lk_held' = lk_held \ {thread}

WorkerAt(here, next) == worker_pc = here /\ worker_pc' = next

MainAt(here, next) == pc = here /\ pc' = next

\* DetectorThread.run of oracle2.py
DetectorRun ==
    /\ prog = "oracle2"
    /\ \/ /\ WorkerAt("grab", "acquire")
          /\ det_no < MaxDetections
          /\ det_no' = det_no + 1
          /\ UNCHANGED <<lk_held, sh_result>>
       \/ /\ WorkerAt("acquire", "w_det")
          /\ Enter("worker")
          /\ UNCHANGED <<sh_result, det_no>>
       \/ /\ WorkerAt("w_det", "w_time")
          /\ sh_result' = [sh_result EXCEPT !.name = det_no]
          /\ UNCHANGED <<lk_held, det_no>>
       \/ /\ WorkerAt("w_time", "release")
          /\ sh_result' = [sh_result EXCEPT !.time = det_no]
          /\ UNCHANGED <<lk_held, det_no>>
       \/ /\ WorkerAt("release", "grab")
          /\ Leave("worker")
          /\ UNCHANGED <<sh_result, det_no>>
    /\ UNCHANGED <<prog, pc, mn_local, latest_gray, worker_busy, nonLk>>

\* run() of oracle2.py: the block at lines 300-302; the one at lines 260-262
\* reads the same way
OracleRead ==
    /\ prog = "oracle2"
    /\ \/ /\ MainAt("loop", "acquire")
          /\ UNCHANGED <<lk_held, mn_local>>
       \/ /\ MainAt("acquire", "r_det")
          /\ Enter("main")
          /\ UNCHANGED mn_local
       \/ /\ MainAt("r_det", "r_time")
          /\ mn_local' = [mn_local EXCEPT !.name = sh_result.name]
          /\ UNCHANGED lk_held
       \/ /\ MainAt("r_time", "release")
          /\ mn_local' = [mn_local EXCEPT !.time = sh_result.time]
          /\ UNCHANGED lk_held
       \/ /\ MainAt("release", "use")
          /\ Leave("main")
          /\ UNCHANGED mn_local
       \/ /\ MainAt("use", "loop")
          /\ UNCHANGED <<lk_held, mn_local>>
    /\ UNCHANGED <<prog, worker_pc, sh_result, det_no, latest_gray, worker_busy, nonLk>>

\* detection_worker of sd4
Sd4Worker ==
    /\ prog = "sd4"
    /\ \/ /\ WorkerAt("grab", "grab_read")
          /\ Enter("worker")
          /\ UNCHANGED <<sh_result, det_no, latest_gray, worker_busy>>
       \/ /\ worker_pc = "grab_read"
          /\ worker_pc' = IF latest_gray THEN "grab_release" ELSE "idle_release"
          /\ latest_gray' = FALSE
          /\ worker_busy' = IF latest_gray THEN worker_busy ELSE FALSE
          /\ UNCHANGED <<lk_held, sh_result, det_no>>
       \/ /\ WorkerAt("idle_release", "grab")
          /\ Leave("worker")
          /\ UNCHANGED <<sh_result, det_no, latest_gray, worker_busy>>
       \/ /\ WorkerAt("grab_release", "busy_acquire")
          /\ Leave("worker")
          /\ UNCHANGED <<sh_result, det_no, latest_gray, worker_busy>>
       \/ /\ WorkerAt("busy_acquire", "busy_set")
          /\ Enter("worker")
          /\ UNCHANGED <<sh_result, det_no, latest_gray, worker_busy>>
       \/ /\ WorkerAt("busy_set", "busy_release")
          /\ worker_busy' = TRUE
          /\ UNCHANGED <<lk_held, sh_result, det_no, latest_gray>>
       \/ /\ WorkerAt("busy_release", "detect")
          /\ Leave("worker")
          /\ UNCHANGED <<sh_result, det_no, latest_gray, worker_busy>>
       \/ /\ WorkerAt("detect", "acquire")
          /\ det_no < MaxDetections
          /\ det_no' = det_no + 1
          /\ UNCHANGED <<lk_held, sh_result, latest_gray, worker_busy>>
       \/ /\ WorkerAt("acquire", "w_name")
          /\ Enter("worker")
          /\ UNCHANGED <<sh_result, det_no, latest_gray, worker_busy>>
       \/ /\ WorkerAt("w_name", "w_inliers")
          /\ sh_result' = [sh_result EXCEPT !.name = det_no]
          /\ UNCHANGED <<lk_held, det_no, latest_gray, worker_busy>>
       \/ /\ WorkerAt("w_inliers", "w_boundary")
          /\ sh_result' = [sh_result EXCEPT !.inliers = det_no]
          /\ UNCHANGED <<lk_held, det_no, latest_gray, worker_busy>>
       \/ /\ WorkerAt("w_boundary", "w_history")
          /\ sh_result' = [sh_result EXCEPT !.boundary = det_no]
          /\ UNCHANGED <<lk_held, det_no, latest_gray, worker_busy>>
       \/ /\ WorkerAt("w_history", "w_busy")
          /\ sh_result' = [sh_result EXCEPT !.hist = det_no]
          /\ UNCHANGED <<lk_held, det_no, latest_gray, worker_busy>>
       \/ /\ WorkerAt("w_busy", "release")
          /\ worker_busy' = FALSE
          /\ UNCHANGED <<lk_held, sh_result, det_no, latest_gray>>
       \/ /\ WorkerAt("release", "grab")
          /\ Leave("worker")
          /\ UNCHANGED <<sh_result, det_no, latest_gray, worker_busy>>
    /\ UNCHANGED <<prog, pc, mn_local, nonLk>>

\* the main loop of sd4: the frame is offered to the worker, then the results
\* are read; of the history the model keeps which detection appended last
Sd4Main ==
    /\ prog = "sd4"
    /\ \/ /\ MainAt("loop", "offer")
          /\ Enter("main")
          /\ UNCHANGED <<mn_local, latest_gray>>
       \/ /\ MainAt("offer", "offer_release")
          /\ latest_gray' = IF worker_busy THEN latest_gray ELSE TRUE
          /\ UNCHANGED <<lk_held, mn_local>>
       \/ /\ MainAt("offer_release", "acquire")
          /\ Leave("main")
          /\ UNCHANGED <<mn_local, latest_gray>>
       \/ /\ MainAt("acquire", "r_name")
          /\ Enter("main")
          /\ UNCHANGED <<mn_local, latest_gray>>
       \/ /\ MainAt("r_name", "r_inliers")
          /\ mn_local' = [mn_local EXCEPT !.name = sh_result.name]
          /\ UNCHANGED <<lk_held, latest_gray>>
       \/ /\ MainAt("r_inliers", "r_boundary")
          /\ mn_local' = [mn_local EXCEPT !.inliers = sh_result.inliers]
          /\ UNCHANGED <<lk_held, latest_gray>>
       \/ /\ MainAt("r_boundary", "r_history")
          /\ mn_local' = [mn_local EXCEPT !.boundary = sh_result.boundary]
          /\ UNCHANGED <<lk_held, latest_gray>>
       \/ /\ MainAt("r_history", "release")
          /\ mn_local' = [mn_local EXCEPT !.hist = sh_result.hist]
          /\ UNCHANGED <<lk_held, latest_gray>>
       \/ /\ MainAt("release", "use")
          /\ Leave("main")
          /\ UNCHANGED <<mn_local, latest_gray>>
       \/ /\ MainAt("use", "loop")
          /\ UNCHANGED <<lk_held, mn_local, latest_gray>>
    /\ UNCHANGED <<prog, worker_pc, sh_result, det_no, worker_busy, nonLk>>

NextLock == DetectorRun \/ OracleRead \/ Sd4Worker \/ Sd4Main

InitLock ==
    /\ prog \in {"oracle2", "sd4"}
    /\ pc = "loop"
    /\ clock = 0
    /\ InitRelayVars
    /\ InitXyVars

SpecLock == InitLock /\ [][NextLock]_vars

----------------------------------------------------------------------------
(* Reading a packet back, as the Arduino side would *)

Digits == {"0", "1", "2", "3", "4", "5", "6", "7", "8", "9"}

DigitVal(c) == CHOOSE d \in 0..9 : DigitChar(d) = c

\* the text between "<" and ">" split at the commas
RECURSIVE SplitFields(_, _)
SplitFields(body, cur) ==
    IF body = <<>> THEN <<cur>>
    ELSE IF Head(body) = "," THEN <<cur>> \o SplitFields(Tail(body), <<>>)
    ELSE SplitFields(Tail(body), Append(cur, Head(body)))

\* a decimal integer in canonical form: optional "-", digits, no leading zero
IsIntText(f) ==
    LET d == IF f # <<>> /\ Head(f) = "-" THEN Tail(f) ELSE f
    IN  /\ d # <<>>
        /\ \A i \in DOMAIN d : d[i] \in Digits
        /\ (Len(d) > 1 => d[1] # "0")
        /\ (f # d => d # <<"0">>)

RECURSIVE ParseNat(_)
ParseNat(d) == IF d = <<>> THEN 0
               ELSE 10 * ParseNat(SubSeq(d, 1, Len(d) - 1)) + DigitVal(d[Len(d)])

ParseInt(f) == IF Head(f) = "-" THEN -ParseNat(Tail(f)) ELSE ParseNat(f)

\* bytes is "<" fields ">" "\n"
IsFramed(bytes) ==
    /\ Len(bytes) >= 3
    /\ bytes[1] = "<"
    /\ bytes[Len(bytes) - 1] = ">"
    /\ bytes[Len(bytes)] = "\n"

PacketFields(bytes) == SplitFields(SubSeq(bytes, 2, Len(bytes) - 2), <<>>)

\* v is the rational num / den truncated toward zero
IsTruncationOf(v, num, den) ==
    /\ (num >= 0 => v >= 0) /\ (num <= 0 => v <= 0)
    /\ Abs(v) * den <= Abs(num)
    /\ Abs(num) < (Abs(v) + 1) * den

----------------------------------------------------------------------------
(* Claims *)

\* C1: every packet handed to the serial port is "<LX,LY,RX>\n" (V7, xy.py) or
\* "<LX,LY,RX,L1,R1>\n" (V2); LX, LY, RX are decimal integers in -255..255, each
\* the truncated scaled stick reading, LY that of the negated Y reading; L1 and
\* R1 are 0 or 1.
C1_PacketFormat ==
    tx_last.phase # "none" =>
        LET f == PacketFields(tx_last.bytes)
            scale == IF IsXy THEN MAX_SPEED ELSE 255
            raw == IF IsXy THEN xy_iter.raw ELSE tx_last.raw
            fromStick == IF IsXy
                         THEN xy_iter.kind = "frame" /\ xy_iter.wrote
                         ELSE tx_last.phase = "main"
        IN  /\ IsFramed(tx_last.bytes)
            /\ Len(f) = (IF prog = "V2" THEN 5 ELSE 3)
            /\ \A i \in 1..3 : IsIntText(f[i]) /\ ParseInt(f[i]) \in -255..255
            /\ \A i \in 4..Len(f) : f[i] \in {<<"0">>, <<"1">>}
            /\ fromStick =>
                  /\ IsTruncationOf(ParseInt(f[1]), raw[1] * scale, AxisRes)
                  /\ IsTruncationOf(ParseInt(f[2]), (-raw[2]) * scale, AxisRes)
                  /\ IsTruncationOf(ParseInt(f[3]), raw[3] * scale, AxisRes)
            /\ fromStick /\ prog = "V2" =>
                  /\ ParseInt(f[4]) = raw[4]
                  /\ ParseInt(f[5]) = raw[5]

\* C1 witness: V2 has written a packet for the stick pulled fully back (raw Y
\* = +1, so LY = -255) with L1 held
C1_Witness ==
    /\ prog = "V2" /\ tx_last.phase = "main"
    /\ tx_last.raw[2] = AxisRes /\ tx_last.raw[4] = 1
    /\ PacketFields(tx_last.bytes)[2] = <<"-", "2", "5", "5">>

\* C2: an iteration of the relay loop writes exactly when SEND_INTERVAL has
\* elapsed since the previous main-loop write (the first iteration always
\* writes); consecutive main-loop writes are at least SEND_INTERVAL apart.
C2_SendInterval ==
    [][ (pc = "loop" /\ IsRelay /\ clock' # clock) =>
          /\ (tx_main' = tx_main + 1) =>
                /\ clock' - last_send >= SEND_INTERVAL
                /\ last_send' = clock'
                /\ tx_last.phase = "main" => clock' - tx_last.at >= SEND_INTERVAL
          /\ (pc' = "loop" /\ clock' - last_send >= SEND_INTERVAL) => tx_main' = tx_main + 1
          /\ (pc' = "loop" /\ tx_main = 0) => tx_main' = 1
          /\ (tx_main' = tx_main) => tx_last' = tx_last
    ]_vars

\* C2 witness: a second main-loop packet has been written
C2_Witness == IsRelay /\ pc = "loop" /\ tx_main = 2 /\ tx_last.at - StartClock > SEND_INTERVAL

StopPacket ==
    IF prog = "V2" THEN <<"<", "0", ",", "0", ",", "0", ",", "0", ",", "0", ">", "\n">>
    ELSE <<"<", "0", ",", "0", ",", "0", ">", "\n">>

\* C3: once the relay loop has ended no joystick packet is written; the finally
\* block makes exactly one write attempt, the all-zero stop packet, then closes
\* the port; that attempt is the last write before "Motors stopped".
C3_StopOnExit ==
    /\ [] (IsRelay =>
            /\ pc = "finally" => tx_final = 0 /\ ser_open
            /\ pc = "close" => tx_final = 1 /\ ser_open
            /\ exit_code = "stopped" => pc = "exited" /\ tx_final = 1 /\ ~ser_open
            /\ tx_final > 0 => tx_last.phase = "final" /\ tx_last.bytes = StopPacket)
    /\ [][ (IsRelay /\ pc \in {"finally", "close", "exited"}) =>
              /\ tx_main' = tx_main
              /\ pc = "finally" => pc' = "close"
              /\ pc = "close" => pc' = "exited" /\ exit_code' = "stopped" /\ tx_last' = tx_last
       ]_vars

\* C3 witness: "Motors stopped" reported after two joystick packets
C3_Witness ==
    /\ IsRelay /\ exit_code = "stopped" /\ tx_main = 2
    /\ tx_last.phase = "final" /\ ~tx_last.ok

ZeroPacket == <<"<", "0", ",", "0", ",", "0", ">">>

\* C4: an iteration of xy.py that starts in AUTO_STOPPING or that triggers it
\* commands <0,0,0>, whatever the sticks read
C4_AutoStopsCommandZero ==
    (IsXy /\ xy_iter.kind = "frame"
        /\ (xy_iter.state_in = STATE_AUTO_STOP \/ current_state = STATE_AUTO_STOP)) =>
        /\ xy_iter.cmd = <<0, 0, 0>>
        /\ prev_packet = ZeroPacket
        /\ xy_iter.wrote => tx_last.bytes = ZeroPacket \o <<"\n">>

\* C4 witness: the triggering iteration wrote the stop packet over a non-zero one
C4_Witness ==
    /\ IsXy /\ controller /\ xy_iter.kind = "frame"
    /\ xy_iter.state_in = STATE_MANUAL /\ current_state = STATE_AUTO_STOP
    /\ xy_iter.wrote

\* C5 (as claimed): no MANUAL_CONTROL -> AUTO_STOPPING transition in an iteration
\* whose time is less than COOLDOWN_T after the last state change
C5_CooldownBlocksTrigger ==
    [][ (IsXy /\ current_state = STATE_MANUAL /\ current_state' = STATE_AUTO_STOP) =>
          clock' - state_timer >= COOLDOWN_T ]_vars

\* C6: the history holds at most 5 entries; a consensus id occupies at least 3
\* of them; MANUAL_CONTROL -> AUTO_STOPPING happens only in an iteration with a
\* consensus, and clears the history
C6_TriggerOnlyByConsensus ==
    /\ [] (IsXy =>
            /\ Len(detection_history) <= HistoryWindow
            /\ xy_iter.kind = "frame" =>
                  /\ Len(xy_iter.history) <= HistoryWindow
                  /\ xy_iter.consensus # -1 =>
                        /\ xy_iter.consensus \in SymbolIds
                        /\ Count(xy_iter.history, xy_iter.consensus) >= ConsensusCount)
    /\ [][ (IsXy /\ current_state = STATE_MANUAL /\ current_state' = STATE_AUTO_STOP) =>
              /\ xy_iter'.kind = "frame"
              /\ xy_iter'.consensus # -1
              /\ Count(xy_iter'.history, xy_iter'.consensus) >= ConsensusCount
              /\ detection_history' = <<>>
       ]_vars

\* C6 witness: a trigger on symbol 2 seen in exactly 3 of 5 frames, one of the
\* others showing symbol 1
C6_Witness ==
    /\ IsXy /\ xy_iter.kind = "frame"
    /\ xy_iter.state_in = STATE_MANUAL /\ current_state = STATE_AUTO_STOP
    /\ xy_iter.consensus = 2
    /\ Len(xy_iter.history) = HistoryWindow
    /\ Count(xy_iter.history, 2) = ConsensusCount
    /\ Count(xy_iter.history, 1) >= 1

\* C7: AUTO_STOPPING entered at time t (state_timer = t) lasts through every
\* iteration with now - t < STOP_DURATION and ends, back in MANUAL_CONTROL, in
\* the first iteration with now - t >= STOP_DURATION
C7_StopLastsStopDuration ==
    [][ (IsXy /\ pc = "loop" /\ pc' = "loop") =>
          /\ (current_state = STATE_MANUAL /\ current_state' = STATE_AUTO_STOP) =>
                state_timer' = clock'
          /\ current_state = STATE_AUTO_STOP =>
                IF clock' - state_timer < STOP_DURATION
                THEN current_state' = STATE_AUTO_STOP /\ state_timer' = state_timer
                ELSE current_state' = STATE_MANUAL /\ state_timer' = clock'
    ]_vars

\* C7 witness: the stop lasted exactly STOP_DURATION and control is manual again
C7_Witness ==
    /\ IsXy /\ xy_iter.kind = "frame"
    /\ xy_iter.state_in = STATE_AUTO_STOP /\ current_state = STATE_MANUAL
    /\ state_timer = clock
    /\ clock = StartClock + STOP_DURATION

\* the TRUE samples of h are at least / less than the given double
FracGeq(h, x) == FGeq(FExact(Sum(h), Len(h)), x)
FracLess(h, x) == FLess(FExact(Sum(h), Len(h)), x)

\* C8: the smoothed state is FALSE until the history holds 3 samples; the
\* history never exceeds SMOOTH_FRAMES; the state turns TRUE only on a history
\* whose fraction of TRUE samples is >= MAJORITY_PCT and turns FALSE only on one
\* whose fraction is < 1 - MAJORITY_PCT (fractions as exact rationals,
\* MAJORITY_PCT as the double the script holds)
C8_SmoothedHysteresis ==
    /\ [] (IsSd => /\ Len(history) <= SMOOTH_FRAMES(prog)
                   /\ Len(history) < MIN_SAMPLES => current_state = FALSE)
    /\ [][ (IsSd /\ current_state' # current_state) =>
              /\ Len(history') >= MIN_SAMPLES
              /\ current_state' => FracGeq(history', MAJORITY_PCT(prog))
              /\ ~current_state' => FracLess(history', FOneMinus(MAJORITY_PCT(prog)))
       ]_vars

\* C8 witness: sd2 has just dropped from TRUE to FALSE on a history of 10
\* samples, 3 of them TRUE
C8_Witness ==
    /\ prog = "sd2" /\ current_state = FALSE
    /\ Len(history) = 10 /\ Sum(history) = 3
    /\ \A i \in 1..3 : history[i]

\* the window w supports announcing n: n is its most common name, occurs at
\* least DETECTION_REQUIRED_COUNT times in at most DEBOUNCE_WINDOW samples,
\* and the mean score of the samples named n is >= DETECTION_SCORE_THRESHOLD
WindowSupports(w, n) ==
    /\ n \in TemplateNames
    /\ Len(w) <= DEBOUNCE_WINDOW
    /\ CountName(w, n) >= DETECTION_REQUIRED_COUNT
    /\ \A m \in TemplateNames : CountName(w, m) <= CountName(w, n)
    /\ ScoreSum(w, n) >= DETECTION_SCORE_THRESHOLD * CountName(w, n)

\* C9: a non-tracking iteration of oracle2.py announces a detection (shows STOP,
\* sets last_announced, starts the tracker) only on a window of the last
\* DEBOUNCE_WINDOW samples whose most common name occurs at least
\* DETECTION_REQUIRED_COUNT times with mean score >= DETECTION_SCORE_THRESHOLD;
\* a detector result older than 1.2 s puts no candidate into the window.
C9_DebouncedAnnouncement ==
    /\ [] ((IsOracle /\ or_iter.kind = "scan") =>
             /\ or_iter.detected => \E n \in TemplateNames : WindowSupports(or_iter.window, n)
             /\ or_iter.started => or_iter.detected
             /\ or_iter.old => or_iter.candidate = NoCandidate)
    /\ [][ IsOracle =>
             /\ (tracking' /\ ~tracking) =>
                   /\ or_iter'.kind = "scan" /\ or_iter'.started
                   /\ or_iter'.window = recent'
                   /\ recent' \in {Append(recent, or_iter'.candidate),
                                   Append(Tail(recent), or_iter'.candidate)}
                   /\ WindowSupports(recent', last_announced')
             /\ (last_announced' # last_announced /\ last_announced' # NoName) =>
                   /\ or_iter'.kind = "scan" /\ or_iter'.detected
                   /\ WindowSupports(or_iter'.window, last_announced')
       ]_vars

\* C9 witness: the tracker was started on a full window holding four samples of
\* "A" with mean score exactly 8 and two samples without a candidate
C9_Witness ==
    /\ IsOracle /\ or_iter.kind = "scan" /\ or_iter.started /\ tracking
    /\ Len(recent) = DEBOUNCE_WINDOW
    /\ CountName(recent, "A") = DETECTION_REQUIRED_COUNT
    /\ ScoreSum(recent, "A") = DETECTION_SCORE_THRESHOLD * DETECTION_REQUIRED_COUNT
    /\ CountName(recent, NoName) = 2

\* C10 (as claimed): while oracle2.py tracks, tracking cannot go on for ever
\* with every tracker update succeeding and every revalidation failing: sooner
\* or later tracking is dropped (or an update fails, or a revalidation passes,
\* or the program is left)
C10_FailedRevalidationDropsTracking ==
    [] ((IsOracle /\ pc = "loop" /\ InTracking) =>
          <> \/ ~InTracking
             \/ pc # "loop"
             \/ or_iter.kind = "track" /\ (~or_iter.ok \/ or_iter.reval = "passed"))

\* C11 (as claimed): oracle2.py drops tracking only at the failed tracker.update
\* that makes more than TRACKER_MAX_LOST failures in a row, and the drop leaves
\* tracking False, no tracker, a failure count of 0, an empty debounce window and
\* last_announced None
C11_DropOnlyBeyondMaxLost ==
    [][ (IsOracle /\ pc = "loop" /\ InTracking /\ or_iter'.kind = "track"
            /\ or_iter'.dropped) =>
          /\ ~or_iter'.ok
          /\ or_iter'.streak = TRACKER_MAX_LOST + 1
          /\ pc' = "loop" =>
                /\ ~tracking' /\ ~tracker'
                /\ tracker_lost' = 0
                /\ recent' = <<>>
                /\ last_announced' = NoName
    ]_vars

-----------------------------------------------------------------------------
\* C12: in every planner mode becomes 3 only by a RUN request (the RUN button,
\* or SPACE in try8.py and try9.py) made while a start is set and the path is
\* not empty; a RUN request made without them leaves mode as it was; so
\* whenever mode is 3 a start is set and path_cells is not empty.
C12_RunNeedsStartAndPath ==
    /\ [](IsPlanner /\ mode = 3 => start_cell # NoCell /\ path_cells # <<>>)
    /\ [][ IsPlanner =>
            /\ (mode # 3 /\ mode' = 3) =>
                  /\ pl_iter'.kind = "run" /\ pl_iter'.ok
                  /\ start_cell # NoCell /\ path_cells # <<>>
            /\ (pl_iter'.kind = "run" /\ (start_cell = NoCell \/ path_cells = <<>>)) =>
                  mode' = mode
       ]_vars

\* C12 witness: a RUN request with a start and a path of two cells has just
\* put try9.py into mode 3
C12_Witness ==
    /\ prog = "try9" /\ mode = 3
    /\ pl_iter = [kind |-> "run", ok |-> TRUE]
    /\ start_cell # NoCell /\ Len(path_cells) = 2

-----------------------------------------------------------------------------
\* the centre of a forest block, as a KFS entry
BlockCentre(b) == <<b[1], b[2] + b[4] \div 2, b[3] + b[5] \div 2>>

OutsideForest(pos) == \A i \in 1..Len(FOREST_BLOCKS) : ~InBlock(FOREST_BLOCKS[i], pos[1], pos[2])

\* C13: in every planner the number of placed KFS never exceeds MAX_KFS; in
\* digital_map.py every placed KFS is the centre of a forest block, no block
\* holds more than one, and a click outside every forest block places none.
C13_KfsBounded ==
    /\ [](IsPlanner => KfsLen(kfs_cells) <= MAX_KFS)
    /\ [](IsDigitalMap =>
            /\ \A k \in DOMAIN kfs_cells :
                  /\ kfs_cells[k] = 1
                  /\ \E i \in 1..Len(FOREST_BLOCKS) : k = BlockCentre(FOREST_BLOCKS[i])
            /\ \A k1, k2 \in DOMAIN kfs_cells : k1[1] = k2[1] => k1 = k2)
    /\ [][ (/\ IsDigitalMap
            /\ \E pos \in {p \in DmOtherPoints : OutsideForest(p)}, ctrl \in BOOLEAN :
                  MouseDown("none", pos, ctrl))
           => kfs_cells' = kfs_cells
       ]_vars

\* C13 witness: digital_map.py is in mode 4 after a click, with MAX_KFS blocks
\* holding a KFS
C13_Witness ==
    /\ IsDigitalMap /\ mode = 4 /\ pl_iter.kind = "click"
    /\ KfsLen(kfs_cells) = MAX_KFS

-----------------------------------------------------------------------------
\* the statements of the main loop and of the detector thread that lie inside
\* a `with` block on the lock guarding the result
MainInside ==
    pc \in {"r_det", "r_time", "r_name", "r_inliers", "r_boundary", "r_history",
            "offer", "offer_release", "release"}

WorkerInside ==
    worker_pc \in {"w_det", "w_time", "w_name", "w_inliers", "w_boundary", "w_history",
                   "w_busy", "release", "grab_read", "idle_release", "grab_release",
                   "busy_set", "busy_release"}

\* C14: in oracle2.py and sd4 the shared last result is read and written only
\* inside the mutex, never by both threads at once, so what the main loop has
\* read when it leaves the block was written by one detection: last_detection
\* with its last_detection_time (oracle2.py); name, inliers, boundary and the
\* last history entry (sd4).
C14_ResultFromOneDetection ==
    IsThreaded =>
        /\ ~(MainInside /\ WorkerInside)
        /\ MainInside => "main" \in lk_held
        /\ WorkerInside => "worker" \in lk_held
        /\ pc = "use" =>
              /\ prog = "oracle2" => mn_local.time = mn_local.name
              /\ prog = "sd4" =>
                    /\ mn_local.inliers = mn_local.name
                    /\ mn_local.boundary = mn_local.name
                    /\ mn_local.hist = mn_local.name

\* C14 witness: the main loop of sd4 has read the name of detection 1 and is
\* still inside the block while the worker waits at the lock to publish
\* detection 2
C14_Witness ==
    /\ prog = "sd4" /\ pc = "r_inliers" /\ mn_local.name = 1
    /\ worker_pc = "acquire" /\ det_no = 2

-----------------------------------------------------------------------------
\* a startup step that finds hardware missing: no serial port to choose, the
\* port cannot be opened, no controller
RelayHardwareMissing == IsRelay /\ (ChoosePortNone \/ OpenSerialFail \/ NoController)

XyHardwareMissing == IsXy /\ (XYOpenSerial(FALSE) \/ XYInitController(FALSE))

\* the process has ended without a packet written and with the port closed
ExitedSilently ==
    /\ pc' = "exited"
    /\ ~ser_open'
    /\ tx_last' = NoTx /\ tx_main' = 0 /\ tx_final' = 0

\* C15 as stated: in the relays and in xy.py missing hardware at startup ends
\* the script before its main loop, with no packet written, no retry, and the
\* serial port closed if it was open.
C15_MissingHardwareExits ==
    /\ [][(RelayHardwareMissing \/ XyHardwareMissing) => ExitedSilently]_vars
    /\ [][pc # "exited"]_vars

\* C15 amended: that holds for the relays.  xy.py goes on when the port cannot
\* be opened or no controller is found: it enters its main loop, and while
\* it has no serial port it writes no packet.  No script takes a step once it
\* has exited.
C15_RelaysExitXyGoesOn ==
    /\ [][RelayHardwareMissing => ExitedSilently]_vars
    /\ [][XyHardwareMissing => pc' \in {"init_joystick", "loop"}]_vars
    /\ [][(IsXy /\ ~ser_open) => tx_last' = tx_last]_vars
    /\ [][pc # "exited"]_vars

\* C15 witness: xy.py has run an iteration of its main loop with neither a
\* serial port nor a controller, and has written nothing
C15_Witness ==
    /\ IsXy /\ pc = "loop" /\ ~ser_open /\ ~controller
    /\ xy_iter # NoIter /\ tx_last = NoTx

-----------------------------------------------------------------------------
\* C16: in every planner, whenever move_robot reads path_cells[target_index]
\* the index is at least 0 and less than len(path_cells), whatever clicks,
\* removals of path cells, resets, RUN requests and frames came before.
C16_TargetIndexInBounds ==
    (IsPlanner /\ pl_iter.kind = "read") =>
        /\ 0 <= pl_iter.index
        /\ pl_iter.index < pl_iter.len

\* C16 witness: try5.py, whose path may hold a cell twice, has just read the
\* second cell of a path of two
C16_Witness ==
    /\ prog = "try5" /\ pl_iter.kind = "read"
    /\ pl_iter.index = 1 /\ pl_iter.len = 2
    /\ path_cells[1] = path_cells[2]

-----------------------------------------------------------------------------
\* the numbers k of the entries 'Reached cell k' in the log of the run
RECURSIVE ReachedIn(_)
ReachedIn(log) ==
    IF log = <<>> THEN <<>>
    ELSE IF Head(log)[1] = "reached" THEN <<Head(log)[2]>> \o ReachedIn(Tail(log))
    ELSE ReachedIn(Tail(log))

CompletedIn(log) == Cardinality({i \in 1..Len(log) : log[i] = <<"done">>})

\* r lies on the straight line from p to t, not before p and not past t
Between(p, r, t) ==
    /\ (r[1] - p[1]) * (t[2] - p[2]) = (r[2] - p[2]) * (t[1] - p[1])
    /\ (r[1] - p[1]) * (t[1] - r[1]) + (r[2] - p[2]) * (t[2] - r[2]) >= 0

\* C17: in digital_map.py, once RUN has started and the user keeps the hands
\* off while frames keep arriving, every move of the robot is along the
\* straight line to the centre of the current target cell and never past it;
\* 'Reached cell k' is logged once for each k = 1..n in increasing order;
\* then the task completes once: task_done is set, 'Task Completed' is logged
\* once and mode is back to 0.
C17_RunCompletes ==
    /\ [][ (mode = 3 /\ robot' # robot) =>
              Between(robot, robot', path_cells[target_index + 1]) ]_vars
    /\ [](ReachedIn(run_log) = [k \in 1..target_index |-> k])
    /\ [](mode = 3 => ~task_done /\ CompletedIn(run_log) = 0)
    /\ [][ (mode = 3 /\ mode' # 3) =>
              /\ mode' = 0 /\ task_done'
              /\ target_index' = Len(path_cells) /\ path_cells' = path_cells
              /\ CompletedIn(run_log') = 1
              /\ run_log'[Len(run_log')] = <<"done">> ]_vars
    /\ (mode = 3) ~> (mode = 0 /\ task_done)

\* C17 witness: a run over two cells, with a KFS collected on the way, has
\* completed
C17_Witness ==
    /\ IsDigitalMap /\ mode = 0 /\ task_done
    /\ run_log = << <<"kfs">>, <<"reached", 1>>, <<"reached", 2>>, <<"done">> >>

====
